---- MODULE Spec2Model ----
(***************************************************************************)
(* The viewport-driven tile cache of frontend/src/components/TileViewer.tsx *)
(* as a state machine: one action per event-loop task (metadata response,  *)
(* mouse handler, animation frame, debounce timer, image load / error).    *)
(* A task runs to completion together with the promise continuations       *)
(* (microtasks) it makes runnable, so an action covers the handler and     *)
(* every async continuation that resumes before the next task.             *)
(***************************************************************************)
EXTENDS Integers, Sequences, FiniteSets, TLC

\* ------------------------------------------------------------ constants
HIGHRES_MARGIN == 0
LOWRES_MARGIN == 768
CLEANUP_MARGIN == 3096
viewportWidth == 1024
viewportHeight == 512
viewportCenterX == viewportWidth \div 2
viewportCenterY == viewportHeight \div 2
BATCH_SIZE == 12
DEBOUNCE_MS == 100

\* --------------------------------------------------------------- bounds
\* Granularity of the clock, in milliseconds.
TickMs == 50
\* Number of loadInBatches runs that may be suspended at the same time.
MaxRuns == 2
\* Number of tile requests that may fail in one behaviour.
MaxFailures == 1
\* Number of animation-frame callbacks that may be queued at the same time.
MaxFrames == 1
\* Number of timer-started refresh cycles in a behaviour of a limited scenario.
WideCycles == 1

\* ------------------------------------------------------------- geometry
Min(a, b) == IF a < b THEN a ELSE b
Max(a, b) == IF a > b THEN a ELSE b

\* Math.ceil(a / b) for a >= 0, b > 0
Ceil(a, b) == (a + b - 1) \div b

\* Math.sqrt is strictly increasing, so the model keeps 4 * distance^2 (an
\* integer also when tileWidth / 2 is not): it orders tiles as distance does.
calculateTileDistance(row, col, centerX, centerY, tileWidth, tileHeight) ==
    LET dx2 == (2 * col * tileWidth + tileWidth) - 2 * centerX
        dy2 == (2 * row * tileHeight + tileHeight) - 2 * centerY
    IN  dx2 * dx2 + dy2 * dy2

\* Mutant: a tile that only touches the zone's edge counts as inside.
isTileInZone_Touching(row, col, pX, pY, tileWidth, tileHeight, margin) ==
    /\ (col + 1) * tileWidth >= pX - margin
    /\ col * tileWidth <= pX + viewportWidth + margin
    /\ (row + 1) * tileHeight >= pY - margin
    /\ row * tileHeight <= pY + viewportHeight + margin

isTileInZone(row, col, pX, pY, tileWidth, tileHeight, margin) ==
    LET tileLeft == col * tileWidth
        tileRight == (col + 1) * tileWidth
        tileTop == row * tileHeight
        tileBottom == (row + 1) * tileHeight
        zoneLeft == pX - margin
        zoneRight == pX + viewportWidth + margin
        zoneTop == pY - margin
        zoneBottom == pY + viewportHeight + margin
    IN  /\ tileRight > zoneLeft
        /\ tileLeft < zoneRight
        /\ tileBottom > zoneTop
        /\ tileTop < zoneBottom

\* A cache key `${type}_${row}_${col}`
KeyOf(type, row, col) == <<type, row, col>>
KeyType(k) == k[1]
KeyRow(k) == k[2]
KeyCol(k) == k[3]

\* ---------------------------------------------------------------- state
VARIABLES
    scenario,        \* environment: the server's metadata, the pans the user reaches
    metaStatus,      \* "pending" | "ok" | "failed": GET /api/tiles/meta
    tileMeta,        \* useState<TileMeta | null>
    panX, panY,      \* useState(0)
    isDragging,      \* useState(false)
    isInitialized,   \* useState(false)
    tilesMapRef,     \* keys of tilesMapRef.current
    loadingTilesRef, \* loadingTilesRef.current
    frames,          \* queued requestAnimationFrame(updatePan) callbacks
    timer,           \* the pending setTimeout of the debounce effect
    runs,            \* suspended loadInBatches runs (awaiting Promise.all)
    failures,        \* number of img.onerror so far
    cycles,          \* number of timer-started cycles so far (limited scenarios)
    sincePan,        \* history: ms since the last pan change (capped)
    cyclesSincePan,  \* history: timer-started cycles since the last pan change
    panChanges,      \* history: pan changes since the last timer-started cycle
    late,            \* history, kept in EvictScenarios: resident keys installed
                     \* while outside the cleanup zone of the pan of that moment;
                     \* no cycle has started since
    last,            \* history: what the last task did
    staleTimers,     \* the timers of earlier runs of the debounce effect that
                     \* are still pending
    blobViewer,      \* the state of the object-URL variant of the component
    staticViewer,    \* the state of the variant that loads its tiles once
    imageViewer      \* the state of the component of ImageViewer.tsx

vars == <<scenario, metaStatus, tileMeta, panX, panY, isDragging, isInitialized,
          tilesMapRef, loadingTilesRef, frames, timer, runs, failures, cycles,
          sincePan, cyclesSincePan, panChanges, late, last, staleTimers,
          blobViewer, staticViewer, imageViewer>>

\* The state of the component of TileViewer.tsx.
viewerVars == <<scenario, metaStatus, tileMeta, panX, panY, isDragging, isInitialized,
                tilesMapRef, loadingTilesRef, frames, timer, runs, failures, cycles,
                sincePan, cyclesSincePan, panChanges, late, last, staleTimers>>

NoMeta == [none |-> TRUE]
NoTimer == [none |-> TRUE]
NoRun == [type |-> "none"]
\* The object-URL variant is not mounted.
NoViewer == [none |-> TRUE]

\* ----------------------------------------------------- zone classifier
\* Mutant: the scan covers the columns of the viewport and the preview margin,
\* without the cleanup margin and the two spare columns.
scanTilesX_Narrow(meta) == Ceil(viewportWidth + LOWRES_MARGIN * 2, meta.tileWidth) \div 2

\* updateTiles, lines 130-141: the scanned rows and columns that exist
scanTilesX(meta) == Ceil(viewportWidth + CLEANUP_MARGIN * 2, meta.tileWidth) + 2
scanTilesY(meta) == Ceil(viewportHeight + CLEANUP_MARGIN * 2, meta.tileHeight) + 2
centerRowOf(meta, currentPanY) == (currentPanY + viewportCenterY) \div meta.tileHeight
centerColOf(meta, currentPanX) == (currentPanX + viewportCenterX) \div meta.tileWidth

\* Mutant: the loops lack the `continue` of lines 138-141 and visit rows and
\* columns the tile set does not have.
ScanList_NoBounds(meta, currentPanX, currentPanY) ==
    LET rlo == centerRowOf(meta, currentPanY) - scanTilesY(meta)
        clo == centerColOf(meta, currentPanX) - scanTilesX(meta)
        nr == 2 * scanTilesY(meta) + 1
        nc == 2 * scanTilesX(meta) + 1
    IN  [i \in 1..(nr * nc) |->
            LET row == rlo + ((i - 1) \div nc)
                col == clo + ((i - 1) % nc)
            IN  [row |-> row, col |-> col,
                 distance |-> calculateTileDistance(row, col,
                                  currentPanX + viewportCenterX,
                                  currentPanY + viewportCenterY,
                                  meta.tileWidth, meta.tileHeight)]]

\* The tiles the two nested loops visit and do not skip, in visiting order.
ScanList(meta, currentPanX, currentPanY) ==
    LET rlo == Max(meta.minRow, centerRowOf(meta, currentPanY) - scanTilesY(meta))
        rhi == Min(meta.maxRow, centerRowOf(meta, currentPanY) + scanTilesY(meta))
        clo == Max(meta.minCol, centerColOf(meta, currentPanX) - scanTilesX(meta))
        chi == Min(meta.maxCol, centerColOf(meta, currentPanX) + scanTilesX(meta))
        nr == Max(0, rhi - rlo + 1)
        nc == Max(0, chi - clo + 1)
    IN  [i \in 1..(nr * nc) |->
            LET row == rlo + ((i - 1) \div nc)
                col == clo + ((i - 1) % nc)
            IN  [row |-> row, col |-> col,
                 distance |-> calculateTileDistance(row, col,
                                  currentPanX + viewportCenterX,
                                  currentPanY + viewportCenterY,
                                  meta.tileWidth, meta.tileHeight)]]

IsHighRes(meta, t, currentPanX, currentPanY) ==
    isTileInZone(t.row, t.col, currentPanX, currentPanY,
                 meta.tileWidth, meta.tileHeight, HIGHRES_MARGIN)

\* Mutant: `if`, not `else if`: the low-res test does not exclude visible tiles.
IsLowRes_NoElse(meta, t, currentPanX, currentPanY) ==
    /\ isTileInZone(t.row, t.col, currentPanX, currentPanY,
                    meta.tileWidth, meta.tileHeight, LOWRES_MARGIN)
    /\ meta.hasPreview

\* line 148: `else if`, the tile is not in the high-res zone
IsLowRes(meta, t, currentPanX, currentPanY) ==
    /\ ~IsHighRes(meta, t, currentPanX, currentPanY)
    /\ isTileInZone(t.row, t.col, currentPanX, currentPanY,
                    meta.tileWidth, meta.tileHeight, LOWRES_MARGIN)
    /\ meta.hasPreview

\* Mutant: the lists stay in scan order.
SortByDistance_ScanOrder(s) == s

\* Array.prototype.sort((a, b) => a.distance - b.distance): stable
RECURSIVE SortByDistance(_)
SortByDistance(s) ==
    IF Len(s) <= 1 THEN s
    ELSE LET rest == SortByDistance(SubSeq(s, 1, Len(s) - 1))
             x == s[Len(s)]
             k == Cardinality({i \in 1..Len(rest) : rest[i].distance <= x.distance})
         IN  SubSeq(rest, 1, k) \o <<x>> \o SubSeq(rest, k + 1, Len(rest))

highResTiles(meta, currentPanX, currentPanY) ==
    SortByDistance(SelectSeq(ScanList(meta, currentPanX, currentPanY),
                             LAMBDA t : IsHighRes(meta, t, currentPanX, currentPanY)))

lowResTiles(meta, currentPanX, currentPanY) ==
    SortByDistance(SelectSeq(ScanList(meta, currentPanX, currentPanY),
                             LAMBDA t : IsLowRes(meta, t, currentPanX, currentPanY)))

\* lines 160-169: the tiles of a list that are not resident
ToLoad(tiles, type, map) ==
    SelectSeq(tiles, LAMBDA t : KeyOf(type, t.row, t.col) \notin map)

\* Mutant: the cleanup tests the viewport itself, not the cleanup zone.
tilesToRemove_Visible(meta, map, currentPanX, currentPanY) ==
    {k \in map : ~isTileInZone(KeyRow(k), KeyCol(k), currentPanX, currentPanY,
                               meta.tileWidth, meta.tileHeight, HIGHRES_MARGIN)}

\* Mutant: no cleanup.
tilesToRemove_None(meta, map, currentPanX, currentPanY) == {}

\* Mutant: the cleanup looks at the high-res entries only.
tilesToRemove_FullOnly(meta, map, currentPanX, currentPanY) ==
    {k \in map : /\ KeyType(k) = "high"
                 /\ ~isTileInZone(KeyRow(k), KeyCol(k), currentPanX, currentPanY,
                                  meta.tileWidth, meta.tileHeight, CLEANUP_MARGIN)}

\* Mutant: the cleanup removes one entry per run.
tilesToRemove_One(meta, map, currentPanX, currentPanY) ==
    LET out == {k \in map : ~isTileInZone(KeyRow(k), KeyCol(k), currentPanX, currentPanY,
                                          meta.tileWidth, meta.tileHeight, CLEANUP_MARGIN)}
    IN  IF out = {} THEN {} ELSE {CHOOSE k \in out : TRUE}

\* lines 204-212: the keys the cleanup removes
tilesToRemove(meta, map, currentPanX, currentPanY) ==
    {k \in map : ~isTileInZone(KeyRow(k), KeyCol(k), currentPanX, currentPanY,
                               meta.tileWidth, meta.tileHeight, CLEANUP_MARGIN)}

\* --------------------------------------------------------- tile fetcher
\* Mutant: loadTile without the in-flight test.
loadTile_NoInflightCheck(key, loading, map) == ~(key \in map)

\* loadTile, lines 86-93: TRUE when the call creates a request (adds the key
\* to loadingTilesRef and sets img.src), FALSE when it returns null at once.
loadTile(key, loading, map) == ~(key \in loading \/ key \in map)

\* What a task has done so far to the refs, with the record of it kept in `last`.
World(map, loading) ==
    [map |-> map, loading |-> loading, issued |-> {}, skipped |-> {},
     installed |-> {}, signals |-> 0]

\* Mutant: the slice has no end, so one Promise.all covers the rest of the list.
batchOf_All(r) == SubSeq(r.tiles, r.i, Len(r.tiles))

\* lines 176-179: batch = tiles.slice(i, i + BATCH_SIZE), one loadTile per tile
batchOf(r) == SubSeq(r.tiles, r.i, Min(r.i + BATCH_SIZE - 1, Len(r.tiles)))

Dispatch(w, r) ==
    LET batch == batchOf(r)
        calls == {KeyOf(r.type, batch[j].row, batch[j].col) : j \in 1..Len(batch)}
        issued == {k \in calls : loadTile(k, w.loading, w.map)}
    IN  [w |-> [w EXCEPT !.loading = @ \cup issued,
                         !.issued = @ \cup issued,
                         !.skipped = @ \cup (calls \ issued)],
         run |-> [r EXCEPT !.pending = issued, !.loaded = {}]]

\* Mutant: one slot per (row, col), as in the single-slot variant: setting the
\* Full tile replaces the Preview tile.
Install_Replace(map, loaded) ==
    (map \cup loaded) \ {KeyOf("low", KeyRow(k), KeyCol(k)) :
                             k \in {h \in loaded : KeyType(h) = "high"}}

\* lines 180-191, after `await Promise.all`: install the batch's tiles,
\* forceUpdate, and move on to the next slice.
Install(map, loaded) == map \cup loaded

\* Mutant: forceUpdate is called after the loop, not in it.
CompleteBatch_SignalAtEnd(w, r) ==
    [w |-> [w EXCEPT !.map = Install(@, r.loaded),
                     !.installed = @ \cup r.loaded,
                     !.signals = IF r.i + BATCH_SIZE > Len(r.tiles) THEN @ + 1 ELSE @],
     run |-> [r EXCEPT !.i = @ + BATCH_SIZE, !.loaded = {}]]

CompleteBatch(w, r) ==
    [w |-> [w EXCEPT !.map = Install(@, r.loaded),
                     !.installed = @ \cup r.loaded,
                     !.signals = @ + 1],
     run |-> [r EXCEPT !.i = @ + BATCH_SIZE, !.loaded = {}]]

\* lines 173-194: runs until a batch has a request to wait for (the run is
\* suspended, pending # {}) or the list is exhausted (run = NoRun). A batch all
\* of whose loadTile calls returned null resolves in the same task.
RECURSIVE loadInBatches(_, _)
loadInBatches(w, r) ==
    IF r.i > Len(r.tiles) THEN [w |-> w, run |-> NoRun]
    ELSE LET d == Dispatch(w, r)
         IN  IF d.run.pending # {} THEN d
             ELSE LET c == CompleteBatch(d.w, d.run)
                  IN  loadInBatches(c.w, c.run)

NewRun(type, tiles, currentPanX, currentPanY, lowResToLoad, init) ==
    [type |-> type, tiles |-> tiles, i |-> 1, pending |-> {}, loaded |-> {},
     panX |-> currentPanX, panY |-> currentPanY,
     lowResToLoad |-> lowResToLoad, init |-> init,
     failed |-> {},    \* history: the keys whose request failed in this run
     adopted |-> {}]   \* history: the value of `late` when the cycle started

\* The record of a cleanup: the pan it tested against, the cache before it and
\* the keys it removed; init: the cycle is the one fetchTileMeta awaits;
\* signalled: the forceUpdate calls of the task after the cleanup; awaiting:
\* the cycle's low-res run is suspended when the task ends.
NoEviction ==
    [ran |-> FALSE, panX |-> 0, panY |-> 0, before |-> {}, removed |-> {},
     init |-> FALSE, signalled |-> 0, awaiting |-> FALSE]

\* Mutant: the cycle classifies and loads preview tiles whatever hasPreview is.
AfterHighRes_NoHasPreview(w, meta, r) ==
    LET lowResToLoad ==
            ToLoad(lowResTiles([meta EXCEPT !.hasPreview = TRUE], r.panX, r.panY),
                   "low", w.map)
        startLow == Len(lowResToLoad) > 0
        low == NewRun("low", lowResToLoad, 0, 0, <<>>, FALSE)
        d == IF startLow THEN Dispatch(w, low) ELSE [w |-> w, run |-> NoRun]
        removed == tilesToRemove(meta, d.w.map, r.panX, r.panY)
        w2 == [d.w EXCEPT !.map = @ \ removed]
    IN  [w |-> w2, run |-> d.run,
         ev |-> [NoEviction EXCEPT !.ran = TRUE, !.panX = r.panX, !.panY = r.panY,
                                   !.before = d.w.map, !.removed = removed],
         ended |-> TRUE, failed |-> r.failed]

\* Mutant: the low-res load is awaited; the cycle is suspended at it before
\* its cleanup.
AfterHighRes_AwaitLow(w, meta, r) ==
    LET startLow == Len(r.lowResToLoad) > 0 /\ meta.hasPreview
        low == NewRun("low", r.lowResToLoad, 0, 0, <<>>, FALSE)
        d == IF startLow THEN loadInBatches(w, low) ELSE [w |-> w, run |-> NoRun]
        removed == tilesToRemove(meta, d.w.map, r.panX, r.panY)
    IN  IF d.run # NoRun
        THEN [w |-> d.w, run |-> d.run, ev |-> NoEviction, ended |-> FALSE,
              failed |-> r.failed]
        ELSE [w |-> [d.w EXCEPT !.map = @ \ removed], run |-> NoRun,
              ev |-> [NoEviction EXCEPT !.ran = TRUE, !.panX = r.panX, !.panY = r.panY,
                                        !.before = d.w.map, !.removed = removed,
                                        !.init = r.init],
              ended |-> TRUE, failed |-> r.failed]

\* lines 199-212, what updateTiles does once `await loadInBatches(high)` is
\* over: start the low-res run without awaiting it (it runs up to its first
\* await), clean up, return; the low-res run resumes after that if its first
\* batch had nothing to wait for.
AfterHighRes(w, meta, r) ==
    LET startLow == Len(r.lowResToLoad) > 0 /\ meta.hasPreview
        low == NewRun("low", r.lowResToLoad, 0, 0, <<>>, FALSE)
        d == IF startLow THEN Dispatch(w, low) ELSE [w |-> w, run |-> NoRun]
        removed == tilesToRemove(meta, d.w.map, r.panX, r.panY)
        w2 == [d.w EXCEPT !.map = @ \ removed]
        rest == IF startLow /\ d.run.pending = {}
                THEN LET c == CompleteBatch(w2, d.run) IN loadInBatches(c.w, c.run)
                ELSE [w |-> w2, run |-> d.run]
        ev == [ran |-> TRUE, panX |-> r.panX, panY |-> r.panY,
               before |-> d.w.map, removed |-> removed,
               init |-> r.init, signalled |-> rest.w.signals - w2.signals,
               awaiting |-> rest.run # NoRun]
    IN  [w |-> rest.w, run |-> rest.run, ev |-> ev, ended |-> TRUE,
         failed |-> r.failed]

\* Mutant: the caller goes on as if the call had returned at its first
\* suspension (a call that is not awaited).
updateTiles_NotAwaited(w, meta, currentPanX, currentPanY, init) ==
    LET highResToLoad == ToLoad(highResTiles(meta, currentPanX, currentPanY), "high", w.map)
        lowResToLoad == ToLoad(lowResTiles(meta, currentPanX, currentPanY), "low", w.map)
        h == loadInBatches(w, NewRun("high", highResToLoad, currentPanX, currentPanY,
                                     lowResToLoad, init))
    IN  IF h.run # NoRun
        THEN [w |-> h.w, run |-> h.run, ev |-> NoEviction, ended |-> TRUE,
              failed |-> {}]
        ELSE AfterHighRes(h.w, meta,
                          NewRun("high", highResToLoad, currentPanX, currentPanY,
                                 lowResToLoad, init))

\* updateTiles, lines 121-214, from the call to its first suspension
updateTiles(w, meta, currentPanX, currentPanY, init) ==
    LET highResToLoad == ToLoad(highResTiles(meta, currentPanX, currentPanY), "high", w.map)
        lowResToLoad == ToLoad(lowResTiles(meta, currentPanX, currentPanY), "low", w.map)
        h == loadInBatches(w, NewRun("high", highResToLoad, currentPanX, currentPanY,
                                     lowResToLoad, init))
    IN  IF h.run # NoRun
        THEN [w |-> h.w, run |-> h.run, ev |-> NoEviction, ended |-> FALSE,
              failed |-> {}]
        ELSE AfterHighRes(h.w, meta,
                          NewRun("high", highResToLoad, currentPanX, currentPanY,
                                 lowResToLoad, init))

\* Mutant: img.onerror resolves the promise with the tile.
Settled_ResolveOnError(r, key, ok) ==
    [r EXCEPT !.pending = @ \ {key},
              !.loaded = @ \cup {key},
              !.failed = IF ok THEN @ ELSE @ \cup {key}]

\* Mutant: img.onerror does not resolve the promise.
Settled_NoResolveOnError(r, key, ok) ==
    [r EXCEPT !.pending = IF ok THEN @ \ {key} ELSE @,
              !.loaded = IF ok THEN @ \cup {key} ELSE @,
              !.failed = IF ok THEN @ ELSE @ \cup {key}]

\* Mutant: img.onerror leaves the key in loadingTilesRef.
loadingAfter_KeepOnError(loading, key, ok) == IF ok THEN loading \ {key} ELSE loading

\* loadTile, lines 103 and 108: img.onload and img.onerror both call
\* loadingTilesRef.current.delete(key).
loadingAfter(loading, key, ok) == loading \ {key}

\* loadTile, lines 102-110: img.onload resolves the request's promise with the
\* tile, img.onerror with null.
Settled(r, key, ok) ==
    [r EXCEPT !.pending = @ \ {key},
              !.loaded = IF ok THEN @ \cup {key} ELSE @,
              !.failed = IF ok THEN @ ELSE @ \cup {key}]

\* A suspended run resumes when the last request of its batch has settled.
Resume(w, meta, r) ==
    LET c == CompleteBatch(w, r)
        n == loadInBatches(c.w, c.run)
    IN  IF n.run # NoRun
        THEN [w |-> n.w, run |-> n.run, ev |-> NoEviction, ended |-> FALSE,
              failed |-> {}]
        ELSE IF r.type = "high"
             THEN AfterHighRes(n.w, meta, r)
             ELSE [w |-> n.w, run |-> NoRun, ev |-> NoEviction, ended |-> FALSE,
                   failed |-> {}]

\* ------------------------------------------------------------ scenarios
\* The metadata the server answers with and the pan offsets the user's drags
\* reach (newPan = dragStart - e.client ranges over every offset).
\* Four 2048 x 2048 tiles in one row; the viewport starts inside tile (0,0).
StripMeta ==
    [minRow |-> 0, maxRow |-> 0, minCol |-> 0, maxCol |-> 3,
     tileWidth |-> 2048, tileHeight |-> 2048,
     centerRow |-> 0, centerCol |-> 0, hasPreview |-> TRUE]

\* Sixteen 512 x 512 tiles; at the initial pan three of them are visible and
\* the other thirteen lie in the preview band, more than one batch.
QuadMeta ==
    [minRow |-> 0, maxRow |-> 3, minCol |-> 0, maxCol |-> 3,
     tileWidth |-> 512, tileHeight |-> 512,
     centerRow |-> 1, centerCol |-> 1, hasPreview |-> TRUE]

\* inOrder: the server answers the requests of a batch in the order of the
\* batch (in any order when FALSE). limited: the behaviour has at most
\* WideCycles timer-started refresh cycles.
\* Far: the second pan shows tile (0,3), and the cleanup of each pan removes
\* the tile the other pan shows. Near: the second pan shows tiles (0,1) and
\* (0,2), the first of them a preview-band tile of the initial pan.
Scenarios ==
    {[meta |-> StripMeta, pans |-> {<<512, 768>>, <<6656, 768>>},
      inOrder |-> FALSE, limited |-> FALSE],
     [meta |-> StripMeta, pans |-> {<<512, 768>>, <<3584, 768>>},
      inOrder |-> FALSE, limited |-> FALSE]}

\* The second pan shows tile (0,3) only; its cleanup zone holds neither tile
\* (0,0), visible at the initial pan, nor tile (0,1), in the preview band of
\* the initial pan.
EvictScenarios ==
    {[meta |-> StripMeta, pans |-> {<<512, 768>>, <<7424, 768>>},
      inOrder |-> FALSE, limited |-> FALSE]}

\* The server has no preview tiles.
PlainScenarios ==
    {[meta |-> [StripMeta EXCEPT !.hasPreview = FALSE],
      pans |-> {<<512, 768>>, <<3584, 768>>},
      inOrder |-> FALSE, limited |-> FALSE]}

\* The server has no preview tiles; the user drags between the initial pan and
\* a pan that shows tile (0,3).
ConvergeScenarios ==
    {[meta |-> [StripMeta EXCEPT !.hasPreview = FALSE],
      pans |-> {<<512, 768>>, <<6656, 768>>},
      inOrder |-> FALSE, limited |-> FALSE]}

\* Three 512 x 512 tiles in one row: two of them visible and one in the preview
\* band at the initial pan, all three visible at the second pan.
TripleMeta ==
    [minRow |-> 0, maxRow |-> 0, minCol |-> 0, maxCol |-> 2,
     tileWidth |-> 512, tileHeight |-> 512,
     centerRow |-> 0, centerCol |-> 0, hasPreview |-> TRUE]

LiveScenarios ==
    {[meta |-> TripleMeta, pans |-> {<<-256, 0>>},
      inOrder |-> FALSE, limited |-> FALSE]}

\* A large tile set, 64 x 127 tiles of 128 x 128 pixels, served without
\* preview tiles.
GridMeta ==
    [minRow |-> 0, maxRow |-> 63, minCol |-> 0, maxCol |-> 126,
     tileWidth |-> 128, tileHeight |-> 128,
     centerRow |-> 31, centerCol |-> 63, hasPreview |-> FALSE]

\* A tile set without preview tiles
PlainMeta == [QuadMeta EXCEPT !.hasPreview = FALSE]

\* Pan offsets a drag can reach, on and off tile edges, inside and outside the
\* image.
ZonePans ==
    {<<x, y>> : x \in {-1024, -256, 0, 256, 512, 1000, 2048, 3584, 6656},
                y \in {-512, 0, 512, 768}}

GridPans ==
    {<<7616, 3776>>, <<7680, 3840>>, <<7700, 3800>>, <<0, 0>>, <<-512, -256>>,
     <<15232, 7680>>, <<16000, 8000>>, <<8128, 4032>>}

\* One refresh cycle on an empty cache: the metadata and the pan the debounce
\* timer holds when it fires.
ZoneScenarios ==
    {[meta |-> m, pans |-> {pan}, inOrder |-> TRUE, limited |-> TRUE] :
        m \in {StripMeta, QuadMeta, TripleMeta, PlainMeta}, pan \in ZonePans}
    \cup
    {[meta |-> GridMeta, pans |-> {pan}, inOrder |-> TRUE, limited |-> TRUE] :
        pan \in GridPans}

WideScenarios ==
    {[meta |-> QuadMeta, pans |-> {<<256, 512>>},
      inOrder |-> TRUE, limited |-> TRUE]}

\* ----------------------------------------------------------- scheduler
\* Mutant: the effect does not wait for isInitialized.
DebounceEffect_NoInitCheck(meta, initialized, pX, pY) ==
    IF meta = NoMeta THEN NoTimer
    ELSE [remaining |-> DEBOUNCE_MS, panX |-> pX, panY |-> pY]

\* The debounce effect, lines 245-253: what the effect leaves pending after a
\* render in which one of its dependencies changed (its cleanup has cleared
\* the timer of the previous render).
DebounceEffect(meta, initialized, pX, pY) ==
    IF meta = NoMeta \/ ~initialized THEN NoTimer
    ELSE [remaining |-> DEBOUNCE_MS, panX |-> pX, panY |-> pY]

\* Mutant: the effect returns no cleanup; the timer it had set stays pending.
effectCleanup_NoClear(pending) == IF pending = NoTimer THEN {} ELSE {pending}

\* line 252, the effect's cleanup `() => clearTimeout(debounceTimer)`: the
\* timers of the effect run it belongs to that it leaves pending.
effectCleanup(pending) == {}

\* Mutant: panX and panY are missing from the dependency list, so the timer
\* of an earlier render stays pending.
Rerun_NoDeps(pending, meta, initialized, pX, pY) ==
    IF pending # NoTimer THEN pending ELSE DebounceEffect(meta, initialized, pX, pY)

\* lines 252-253: panX and panY are dependencies of the effect, so a render
\* with a new pan runs the cleanup (clearTimeout of the timer `pending`) and
\* then the effect again.
Rerun(pending, meta, initialized, pX, pY) ==
    DebounceEffect(meta, initialized, pX, pY)

NoEvent ==
    [started |-> "no",      \* "init" | "timer": the task called updateTiles
     startPanX |-> 0, startPanY |-> 0,    \* with this pan
     burst |-> 0,           \* pan changes since the previous timer-started cycle
     elapsed |-> 0,         \* ms between the last pan change and the call
     issued |-> {},         \* keys for which loadTile created a request
     skipped |-> {},        \* keys for which loadTile returned null at once
     installed |-> {},      \* keys set in tilesMapRef
     signals |-> 0,         \* forceUpdate calls
     ev |-> NoEviction,     \* the cleanup step, when an updateTiles call ended
     cycleFailed |-> {},    \* the failed Full requests of the call that ended
     errored |-> {},        \* the key whose img.onerror ran in the task
     lateKept |-> {},       \* the keys the ended cycle had adopted: those its
     lateRemoved |-> {}]    \* cleanup found resident and kept / removed

EventOf(res) ==
    [NoEvent EXCEPT !.issued = res.w.issued, !.skipped = res.w.skipped,
                    !.installed = res.w.installed, !.signals = res.w.signals,
                    !.ev = res.ev, !.cycleFailed = res.failed]

\* History: the record of a task with the fate of the keys the ended cycle had
\* adopted, and the keys a task installs outside the cleanup zone of the pan.
WithAdopted(event, adopted) ==
    IF event.ev.ran
    THEN [event EXCEPT !.lateKept = (adopted \cap event.ev.before) \ event.ev.removed,
                       !.lateRemoved = adopted \cap event.ev.removed]
    ELSE event

Adopt(run, adopted) ==
    IF run # NoRun /\ run.type = "high" THEN [run EXCEPT !.adopted = adopted] ELSE run

LateInstalls(meta, installed, pX, pY) ==
    {k \in installed : ~isTileInZone(KeyRow(k), KeyCol(k), pX, pY,
                                     meta.tileWidth, meta.tileHeight, CLEANUP_MARGIN)}

FreeSlots == {s \in 1..MaxRuns : runs[s] = NoRun}
FreeSlot == CHOOSE s \in FreeSlots : \A t \in FreeSlots : s <= t

InitOf(scenarios) ==
    /\ scenario \in scenarios
    /\ metaStatus = "pending"
    /\ tileMeta = NoMeta
    /\ panX = 0
    /\ panY = 0
    /\ isDragging = FALSE
    /\ isInitialized = FALSE
    /\ tilesMapRef = {}
    /\ loadingTilesRef = {}
    /\ frames = <<>>
    /\ timer = NoTimer
    /\ staleTimers = {}
    /\ runs = [s \in 1..MaxRuns |-> NoRun]
    /\ failures = 0
    /\ cycles = 0
    /\ sincePan = 0
    /\ cyclesSincePan = 0
    /\ panChanges = 0
    /\ late = {}
    /\ last = NoEvent
    /\ blobViewer = NoViewer
    /\ staticViewer = NoViewer
    /\ imageViewer = NoViewer

Init == InitOf(Scenarios)

InitWide == InitOf(WideScenarios)

InitLive == InitOf(LiveScenarios)

InitEvict == InitOf(EvictScenarios)

InitPlain == InitOf(PlainScenarios)

InitConverge == InitOf(ConvergeScenarios)

\* The viewer is initialized, every earlier request has failed or its tile has
\* been cleaned up, the user has dragged to the scenario's pan and the debounce
\* timer armed by that pan change is due.
InitZones ==
    /\ scenario \in ZoneScenarios
    /\ metaStatus = "ok"
    /\ tileMeta = scenario.meta
    /\ \E pan \in scenario.pans :
           /\ panX = pan[1]
           /\ panY = pan[2]
           /\ timer = [remaining |-> 0, panX |-> pan[1], panY |-> pan[2]]
    /\ staleTimers = {}
    /\ isDragging = FALSE
    /\ isInitialized = TRUE
    /\ tilesMapRef = {}
    /\ loadingTilesRef = {}
    /\ frames = <<>>
    /\ runs = [s \in 1..MaxRuns |-> NoRun]
    /\ failures = 0
    /\ cycles = 0
    /\ sincePan = DEBOUNCE_MS
    /\ cyclesSincePan = 0
    /\ panChanges = 1
    /\ late = {}
    /\ last = NoEvent
    /\ blobViewer = NoViewer
    /\ staticViewer = NoViewer
    /\ imageViewer = NoViewer

\* fetchTileMeta, lines 218-235: the metadata arrives
FetchMetaOk ==
    /\ metaStatus = "pending"
    /\ LET meta == scenario.meta
           initialPanX == meta.centerCol * meta.tileWidth + meta.tileWidth \div 2
                              - viewportCenterX
           initialPanY == meta.centerRow * meta.tileHeight + meta.tileHeight \div 2
                              - viewportCenterY
       IN  \E res \in {updateTiles(World(tilesMapRef, loadingTilesRef), meta,
                                     initialPanX, initialPanY, TRUE)} :
           /\ metaStatus' = "ok"
           /\ tileMeta' = meta
           /\ panX' = initialPanX
           /\ panY' = initialPanY
           /\ tilesMapRef' = res.w.map
           /\ loadingTilesRef' = res.w.loading
           /\ runs' = [runs EXCEPT ![FreeSlot] = res.run]
           /\ isInitialized' = res.ended
           /\ timer' = DebounceEffect(meta, res.ended, initialPanX, initialPanY)
           /\ last' = [EventOf(res) EXCEPT !.started = "init",
                                           !.startPanX = initialPanX,
                                           !.startPanY = initialPanY]
    /\ UNCHANGED <<staleTimers, staticViewer, blobViewer, imageViewer, scenario, isDragging, frames, failures, cycles, sincePan,
                   cyclesSincePan, panChanges, late>>

\* Mutant: the catch block lets the viewer through.
FetchMetaFail_Initialized ==
    /\ metaStatus = "pending"
    /\ metaStatus' = "failed"
    /\ isInitialized' = TRUE
    /\ last' = NoEvent
    /\ UNCHANGED <<staleTimers, staticViewer, blobViewer, imageViewer, scenario, tileMeta, panX, panY, isDragging,
                   tilesMapRef, loadingTilesRef, frames, timer, runs, failures, cycles,
                   sincePan, cyclesSincePan, panChanges, late>>

\* fetchTileMeta, lines 236-238: axios.get rejects
FetchMetaFail ==
    /\ metaStatus = "pending"
    /\ metaStatus' = "failed"
    /\ last' = NoEvent
    /\ UNCHANGED <<staleTimers, staticViewer, blobViewer, imageViewer, scenario, tileMeta, panX, panY, isDragging, isInitialized,
                   tilesMapRef, loadingTilesRef, frames, timer, runs, failures, cycles,
                   sincePan, cyclesSincePan, panChanges, late>>

\* The viewport element and its handlers exist only once the render guard of
\* lines 323-329 lets it through.
Rendered == tileMeta # NoMeta /\ isInitialized

handleMouseDown ==
    /\ Rendered
    /\ isDragging' = TRUE
    /\ last' = NoEvent
    /\ UNCHANGED <<staleTimers, staticViewer, blobViewer, imageViewer, scenario, metaStatus, tileMeta, panX, panY, isInitialized,
                   tilesMapRef, loadingTilesRef, frames, timer, runs, failures, cycles,
                   sincePan, cyclesSincePan, panChanges, late>>

handleMouseUp ==
    /\ Rendered
    /\ isDragging' = FALSE
    /\ last' = NoEvent
    /\ UNCHANGED <<staleTimers, staticViewer, blobViewer, imageViewer, scenario, metaStatus, tileMeta, panX, panY, isInitialized,
                   tilesMapRef, loadingTilesRef, frames, timer, runs, failures, cycles,
                   sincePan, cyclesSincePan, panChanges, late>>

\* lines 262-273: queues updatePan for the next animation frame
handleMouseMove(newPan) ==
    /\ Rendered
    /\ isDragging /\ tileMeta # NoMeta
    /\ Len(frames) < MaxFrames
    /\ frames' = Append(frames, newPan)
    /\ last' = NoEvent
    /\ UNCHANGED <<staleTimers, staticViewer, blobViewer, imageViewer, scenario, metaStatus, tileMeta, panX, panY, isDragging,
                   isInitialized, tilesMapRef, loadingTilesRef, timer, runs,
                   failures, cycles, sincePan, cyclesSincePan, panChanges, late>>

\* updatePan, lines 267-270, and the render it causes: setPanX / setPanY with
\* the current values change nothing and run no effect; with new values the
\* debounce effect's cleanup clears the timer and the effect arms a new one.
updatePan ==
    /\ frames # <<>>
    /\ LET newPan == Head(frames)
           changed == newPan # <<panX, panY>>
       IN  /\ frames' = Tail(frames)
           /\ panX' = newPan[1]
           /\ panY' = newPan[2]
           /\ timer' = IF changed
                       THEN Rerun(timer, tileMeta, isInitialized, newPan[1], newPan[2])
                       ELSE timer
           /\ sincePan' = IF changed THEN 0 ELSE sincePan
           /\ cyclesSincePan' = IF changed THEN 0 ELSE cyclesSincePan
           /\ panChanges' = IF changed THEN Min(panChanges + 1, 2) ELSE panChanges
           /\ staleTimers' = IF changed THEN staleTimers \cup effectCleanup(timer)
                             ELSE staleTimers
    /\ last' = NoEvent
    /\ UNCHANGED <<staticViewer, blobViewer, imageViewer, scenario, metaStatus, tileMeta, isDragging,
                   isInitialized, tilesMapRef, loadingTilesRef, runs, failures, cycles,
                   late>>

\* TickMs of time pass while a timer is pending
Tick ==
    /\ timer # NoTimer
    /\ timer.remaining > 0
    /\ timer' = [timer EXCEPT !.remaining = Max(0, @ - TickMs)]
    /\ sincePan' = Min(sincePan + TickMs, DEBOUNCE_MS)
    /\ last' = NoEvent
    /\ UNCHANGED <<staleTimers, staticViewer, blobViewer, imageViewer, scenario, metaStatus, tileMeta, panX, panY, isDragging,
                   isInitialized, tilesMapRef, loadingTilesRef, frames, runs,
                   failures, cycles, cyclesSincePan, panChanges, late>>

\* lines 248-250: the timer fires and calls updateTiles with the pan of the
\* render that armed it
TimerFire ==
    /\ timer # NoTimer
    /\ timer.remaining = 0
    /\ FreeSlots # {}
    /\ scenario.limited => cycles < WideCycles
    /\ cycles' = IF scenario.limited THEN cycles + 1 ELSE cycles
    /\ \E res \in {updateTiles(World(tilesMapRef, loadingTilesRef), tileMeta,
                                 timer.panX, timer.panY, FALSE)} :
           /\ tilesMapRef' = res.w.map
           /\ loadingTilesRef' = res.w.loading
           /\ runs' = [runs EXCEPT ![FreeSlot] = Adopt(res.run, late)]
           /\ last' = [WithAdopted(EventOf(res), late)
                           EXCEPT !.started = "timer",
                                  !.startPanX = timer.panX,
                                  !.startPanY = timer.panY,
                                  !.burst = panChanges,
                                  !.elapsed = sincePan]
    /\ late' = {}
    /\ timer' = NoTimer
    /\ cyclesSincePan' = Min(cyclesSincePan + 1, 2)
    /\ panChanges' = 0
    /\ UNCHANGED <<staleTimers, staticViewer, blobViewer, imageViewer, scenario, metaStatus, tileMeta, panX, panY, isDragging,
                   isInitialized, frames, failures, sincePan>>

\* The pending request a run issued first
FirstPending(r) ==
    LET batch == batchOf(r)
        j == CHOOSE j \in 1..Len(batch) :
                 /\ KeyOf(r.type, batch[j].row, batch[j].col) \in r.pending
                 /\ \A h \in 1..(j - 1) :
                        KeyOf(r.type, batch[h].row, batch[h].col) \notin r.pending
    IN  KeyOf(r.type, batch[j].row, batch[j].col)

\* img.onload / img.onerror, lines 102-110, and the continuation of the run
\* that awaits the request when it was the last of its batch
Settle(s, key, ok) ==
    /\ runs[s] # NoRun
    /\ key \in runs[s].pending
    /\ scenario.inOrder => key = FirstPending(runs[s])
    /\ \E res \in {LET r == Settled(runs[s], key, ok)
                        w == World(tilesMapRef, loadingAfter(loadingTilesRef, key, ok))
                    IN  IF r.pending # {}
                        THEN [w |-> w, run |-> r, ev |-> NoEviction, ended |-> FALSE,
                              failed |-> {}]
                        ELSE Resume(w, tileMeta, r)} :
       LET initDone == res.ended /\ runs[s].init
       IN  /\ tilesMapRef' = res.w.map
           /\ loadingTilesRef' = res.w.loading
           /\ runs' = [runs EXCEPT ![s] = res.run]
           /\ isInitialized' = (isInitialized \/ initDone)
           /\ timer' = IF initDone
                       THEN DebounceEffect(tileMeta, TRUE, panX, panY)
                       ELSE timer
           /\ last' = [WithAdopted(EventOf(res), runs[s].adopted)
                           EXCEPT !.errored = IF ok THEN {} ELSE {key}]
           /\ late' = IF scenario \in EvictScenarios
                       THEN (late \cup LateInstalls(tileMeta, res.w.installed,
                                                    panX, panY)) \cap res.w.map
                       ELSE {}
    /\ UNCHANGED <<staleTimers, staticViewer, blobViewer, imageViewer, scenario, metaStatus, tileMeta, panX, panY, isDragging,
                   frames, sincePan, cyclesSincePan, panChanges>>

ImgOnload(s, key) ==
    /\ Settle(s, key, TRUE)
    /\ UNCHANGED <<failures, cycles>>

ImgOnerror(s, key) ==
    /\ failures < MaxFailures
    /\ Settle(s, key, FALSE)
    /\ failures' = failures + 1
    /\ UNCHANGED cycles

AllKeys(meta) ==
    {KeyOf(type, row, col) : type \in {"high", "low"},
                             row \in meta.minRow..meta.maxRow,
                             col \in meta.minCol..meta.maxCol}

Next ==
    \/ FetchMetaOk
    \/ FetchMetaFail
    \/ handleMouseDown
    \/ handleMouseUp
    \/ \E newPan \in scenario.pans : handleMouseMove(newPan)
    \/ updatePan
    \/ Tick
    \/ TimerFire
    \/ \E s \in 1..MaxRuns : \E key \in loadingTilesRef : ImgOnload(s, key)
    \/ \E s \in 1..MaxRuns : \E key \in loadingTilesRef : ImgOnerror(s, key)

Spec == Init /\ [][Next]_vars

SpecWide == InitWide /\ [][Next]_vars

SpecEvict == InitEvict /\ [][Next]_vars

SpecPlain == InitPlain /\ [][Next]_vars

\* The classification of one refresh cycle, for every metadata and pan of
\* ZoneScenarios.
NextZones == TimerFire

SpecZones == InitZones /\ [][NextZones]_vars

\* Every issued request settles: the browser fires onload or onerror of each
\* image a run waits for.
RequestsSettle ==
    \A s \in 1..MaxRuns :
        WF_vars(\E key \in loadingTilesRef : ImgOnload(s, key) \/ ImgOnerror(s, key))

SpecLive == InitLive /\ [][Next]_vars /\ RequestsSettle

\* A task the browser runs for the program, other than a due timer: a queued
\* animation frame, time passing while a timer is pending, the load or error
\* event of a requested image.
BrowserTask ==
    \/ updatePan
    \/ Tick
    \/ \E s \in 1..MaxRuns : \E key \in loadingTilesRef :
           ImgOnload(s, key) \/ ImgOnerror(s, key)

\* The condition under which TimerFire can happen.
TimerDue ==
    /\ timer # NoTimer
    /\ timer.remaining = 0
    /\ FreeSlots # {}
    /\ scenario.limited => cycles < WideCycles

\* WF_vars(TimerFire), with TimerDue written for ENABLED <<TimerFire>>_vars
TimerFires == []<>(~TimerDue) \/ []<><<TimerFire>>_vars

\* The browser does not stop while it has a task to run, and a due timer fires.
SpecConverge == InitConverge /\ [][Next]_vars /\ WF_vars(BrowserTask) /\ TimerFires

\* ------------------------------------------------- object-URL variant
\* The variant of the component that fetches each tile as a blob and renders
\* it from an object URL. Its cache has one slot per (row, col).
HIGHRES_RADIUS == 512
LOWRES_RADIUS == 1024
CLEANUP_RADIUS == 1536
viewportSize == 1024
viewportCenter == viewportSize \div 2

\* Number of updateTiles calls that may be suspended at the same time.
BlobMaxCalls == 2
\* Number of timer-started updateTiles calls in a behaviour.
BlobMaxCycles == 2
\* Number of tile requests that may fail in a behaviour.
BlobMaxFailures == 1

NoCall == [phase |-> "none"]
NoCleanup == [ran |-> FALSE, panX |-> 0, panY |-> 0]

\* Three 768 x 768 tiles in a row: at the initial pan the middle one is within
\* HIGHRES_RADIUS and its neighbours are within LOWRES_RADIUS.
BlobMeta ==
    [minRow |-> 0, maxRow |-> 0, minCol |-> 0, maxCol |-> 2,
     tileWidth |-> 768, tileHeight |-> 768,
     centerRow |-> 0, centerCol |-> 1, hasPreview |-> TRUE]

\* The pans a drag reaches: the initial one, one tile to the right (the right
\* neighbour becomes high-res) and far to the right (the left tiles are beyond
\* CLEANUP_RADIUS).
BlobPans == {<<640, -128>>, <<1408, -128>>, <<2944, -128>>}

\* `distance <= radius` on 4 * distance^2, which calculateTileDistance keeps
WithinRadius(distance, radius) == distance <= 4 * radius * radius

\* lines 93-113: the tiles of the scan that exist, with their distance
blobScan(meta, currentPanX, currentPanY) ==
    LET worldCenterX == currentPanX + viewportCenter
        worldCenterY == currentPanY + viewportCenter
        scanRadius == Ceil(CLEANUP_RADIUS, Min(meta.tileWidth, meta.tileHeight)) + 2
        centerRow == worldCenterY \div meta.tileHeight
        centerCol == worldCenterX \div meta.tileWidth
    IN  {[row |-> row, col |-> col,
          distance |-> calculateTileDistance(row, col, worldCenterX, worldCenterY,
                                             meta.tileWidth, meta.tileHeight)] :
            row \in Max(meta.minRow, centerRow - scanRadius)
                        ..Min(meta.maxRow, centerRow + scanRadius),
            col \in Max(meta.minCol, centerCol - scanRadius)
                        ..Min(meta.maxCol, centerCol + scanRadius)}

\* lines 107-111. The lists are sorted by distance (lines 116-117); every
\* request of a list is issued in the same task, so the model keeps sets.
blobHighResTiles(meta, currentPanX, currentPanY) ==
    {t \in blobScan(meta, currentPanX, currentPanY) :
        WithinRadius(t.distance, HIGHRES_RADIUS)}

blobLowResTiles(meta, currentPanX, currentPanY) ==
    {t \in blobScan(meta, currentPanX, currentPanY) :
        /\ ~WithinRadius(t.distance, HIGHRES_RADIUS)
        /\ WithinRadius(t.distance, LOWRES_RADIUS)
        /\ meta.hasPreview}

\* tilesMap.has / tilesMap.get of the key `${row}_${col}`. A Tile of the model
\* is [row, col, url, type]; its distance is never read.
blobHas(tilesMap, row, col) == \E t \in tilesMap : t.row = row /\ t.col = col
blobGet(tilesMap, row, col) == CHOOSE t \in tilesMap : t.row = row /\ t.col = col

\* loadTile, lines 64-80, up to the await of axios.get
blobRequest(t, type) ==
    [row |-> t.row, col |-> t.col, type |-> type, state |-> "pending", url |-> 0]

\* loadTile, lines 74-79: the response arrives and URL.createObjectURL names
\* the blob, or the request fails and the result is null
blobLoadTile(q, ok, url) ==
    IF ok THEN [q EXCEPT !.state = "ok", !.url = url]
    ELSE [q EXCEPT !.state = "failed"]

blobTile(q) == [row |-> q.row, col |-> q.col, url |-> q.url, type |-> q.type]

\* lines 133-142: each high-res result replaces the entry of its key and
\* revokes the URL of the entry it replaces
blobInstallHigh(v, results) ==
    LET tiles == {q \in results : q.state = "ok"}
        existing == {t \in v.tilesMap : \E q \in tiles : q.row = t.row /\ q.col = t.col}
    IN  [v EXCEPT !.tilesMap = (@ \ existing) \cup {blobTile(q) : q \in tiles},
                  !.revoked = @ \cup {t.url : t \in existing},
                  !.handled = @ \cup {q.url : q \in tiles}]

\* Mutant: a low-res result is stored whatever its key holds.
blobInstallLow_Always(v, results) ==
    LET tiles == {q \in results : q.state = "ok"}
        existing == {t \in v.tilesMap : \E q \in tiles : q.row = t.row /\ q.col = t.col}
    IN  [v EXCEPT !.tilesMap = (@ \ existing) \cup {blobTile(q) : q \in tiles},
                  !.handled = @ \cup {q.url : q \in tiles}]

\* lines 145-153: a low-res result is stored only when its key has no entry
blobInstallLow(v, results) ==
    LET tiles == {q \in results : q.state = "ok"}
        fresh == {q \in tiles : ~blobHas(v.tilesMap, q.row, q.col)}
    IN  [v EXCEPT !.tilesMap = @ \cup {blobTile(q) : q \in fresh},
                  !.handled = @ \cup {q.url : q \in tiles}]

\* lines 158-166: entries beyond CLEANUP_RADIUS are revoked and deleted
blobCleanup(v, meta, currentPanX, currentPanY) ==
    LET beyondCleanup ==
            {t \in v.tilesMap :
                ~WithinRadius(calculateTileDistance(t.row, t.col,
                                  currentPanX + viewportCenter,
                                  currentPanY + viewportCenter,
                                  meta.tileWidth, meta.tileHeight),
                              CLEANUP_RADIUS)}
    IN  [v EXCEPT !.tilesMap = @ \ beyondCleanup,
                  !.revoked = @ \cup {t.url : t \in beyondCleanup}]

blobSettled(requests) == \A q \in requests : q.state # "pending"

\* lines 132-168 and 188-189: the continuation of call c. Once every high-res
\* request has settled the results are stored, the cleanup runs and, for the
\* call of fetchTileMeta, setIsInitialized(true) lets the debounce effect arm
\* its timer; once every low-res request has settled too, the `then` callback
\* stores the low-res results and the call is over.
blobResume(v, c) ==
    LET call == v.calls[c]
        afterHigh ==
            IF call.phase = "high" /\ blobSettled(call.high)
            THEN [blobCleanup(blobInstallHigh(v, call.high), v.tileMeta,
                              call.panX, call.panY)
                      EXCEPT !.calls[c].phase = "low",
                             !.cleanup = [ran |-> TRUE, panX |-> call.panX,
                                          panY |-> call.panY],
                             !.isInitialized = @ \/ call.init,
                             !.timer = IF call.init
                                       THEN [panX |-> v.panX, panY |-> v.panY]
                                       ELSE @]
            ELSE [v EXCEPT !.cleanup = NoCleanup]
    IN  IF afterHigh.calls[c].phase = "low" /\ blobSettled(call.low)
        THEN [blobInstallLow(afterHigh, call.low) EXCEPT !.calls[c] = NoCall]
        ELSE afterHigh

\* updateTiles, lines 83-129: both lists of requests are issued before the
\* first await
blobUpdateTiles(v, c, meta, currentPanX, currentPanY, init) ==
    LET tilesMap == v.tilesMap
        high == {t \in blobHighResTiles(meta, currentPanX, currentPanY) :
                    \/ ~blobHas(tilesMap, t.row, t.col)
                    \/ blobGet(tilesMap, t.row, t.col).type = "low"}
        low == {t \in blobLowResTiles(meta, currentPanX, currentPanY) :
                    ~blobHas(tilesMap, t.row, t.col)}
        call == [phase |-> "high", init |-> init,
                 panX |-> currentPanX, panY |-> currentPanY,
                 high |-> {blobRequest(t, "high") : t \in high},
                 low |-> {blobRequest(t, "low") : t \in low}]
    IN  blobResume([v EXCEPT !.calls[c] = call], c)

\* The variant is mounted and GET /api/tiles/meta is pending.
InitBlobOf(pans) ==
    /\ scenario = [meta |-> BlobMeta, pans |-> pans, inOrder |-> FALSE,
                   limited |-> TRUE]
    /\ metaStatus = "pending"
    /\ tileMeta = NoMeta
    /\ panX = 0
    /\ panY = 0
    /\ isDragging = FALSE
    /\ isInitialized = FALSE
    /\ tilesMapRef = {}
    /\ loadingTilesRef = {}
    /\ frames = <<>>
    /\ timer = NoTimer
    /\ staleTimers = {}
    /\ runs = [s \in 1..MaxRuns |-> NoRun]
    /\ failures = 0
    /\ cycles = 0
    /\ sincePan = 0
    /\ cyclesSincePan = 0
    /\ panChanges = 0
    /\ late = {}
    /\ last = NoEvent
    /\ blobViewer =
           [tileMeta |-> NoMeta, panX |-> 0, panY |-> 0, isInitialized |-> FALSE,
            tilesMap |-> {}, timer |-> NoTimer,
            calls |-> [c \in 1..BlobMaxCalls |-> NoCall],
            nextUrl |-> 1,     \* the next object URL createObjectURL returns
            revoked |-> {},    \* history: the URLs revokeObjectURL was called with
            handled |-> {},    \* history: the URLs of the results a forEach visited
            cleanup |-> NoCleanup,  \* history: the cleanup the last task ran
            cycles |-> 0, failures |-> 0]
    /\ staticViewer = NoViewer
    /\ imageViewer = NoViewer

InitBlob == InitBlobOf(BlobPans)

BlobFreeCalls == {c \in 1..BlobMaxCalls : blobViewer.calls[c] = NoCall}
BlobFreeCall == CHOOSE c \in BlobFreeCalls : \A d \in BlobFreeCalls : c <= d

\* fetchTileMeta, lines 173-189: the metadata arrives
blobFetchTileMeta ==
    /\ blobViewer.tileMeta = NoMeta
    /\ LET meta == scenario.meta
           initialPanX == meta.centerCol * meta.tileWidth + meta.tileWidth \div 2
                              - viewportCenter
           initialPanY == meta.centerRow * meta.tileHeight + meta.tileHeight \div 2
                              - viewportCenter
           v == [blobViewer EXCEPT !.tileMeta = meta,
                                   !.panX = initialPanX, !.panY = initialPanY]
       IN  blobViewer' = blobUpdateTiles(v, BlobFreeCall, meta,
                                         initialPanX, initialPanY, TRUE)
    /\ UNCHANGED <<viewerVars, staticViewer, imageViewer>>

\* handleMouseMove and updatePan, lines 215-223, behind the render guard of
\* line 269: setPanState with a new object; the debounce effect's cleanup
\* clears the timer and the effect arms a new one (lines 199-207)
blobSetPanState(newPan) ==
    /\ blobViewer.tileMeta # NoMeta
    /\ blobViewer.isInitialized
    /\ blobViewer' = [blobViewer EXCEPT !.panX = newPan[1], !.panY = newPan[2],
                                        !.timer = [panX |-> newPan[1],
                                                   panY |-> newPan[2]],
                                        !.cleanup = NoCleanup]
    /\ UNCHANGED <<viewerVars, staticViewer, imageViewer>>

\* lines 202-204: the debounce timer fires
blobTimerFire ==
    /\ blobViewer.timer # NoTimer
    /\ BlobFreeCalls # {}
    /\ blobViewer.cycles < BlobMaxCycles
    /\ blobViewer' =
           blobUpdateTiles([blobViewer EXCEPT !.timer = NoTimer, !.cycles = @ + 1],
                           BlobFreeCall, blobViewer.tileMeta,
                           blobViewer.timer.panX, blobViewer.timer.panY, FALSE)
    /\ UNCHANGED <<viewerVars, staticViewer, imageViewer>>

\* The response to request q of call c arrives (ok) or the request fails, and
\* the continuations that no longer wait run.
blobResponse(c, q, ok) ==
    /\ blobViewer.calls[c] # NoCall
    /\ q \in blobViewer.calls[c].high \cup blobViewer.calls[c].low
    /\ q.state = "pending"
    /\ ~ok => blobViewer.failures < BlobMaxFailures
    /\ LET r == blobLoadTile(q, ok, blobViewer.nextUrl)
           v == [blobViewer EXCEPT
                    !.calls[c].high = IF q \in @ THEN (@ \ {q}) \cup {r} ELSE @,
                    !.calls[c].low = IF q \in @ THEN (@ \ {q}) \cup {r} ELSE @,
                    !.nextUrl = IF ok THEN @ + 1 ELSE @,
                    !.failures = IF ok THEN @ ELSE @ + 1]
       IN  blobViewer' = blobResume(v, c)
    /\ UNCHANGED <<viewerVars, staticViewer, imageViewer>>

BlobRequests ==
    UNION {blobViewer.calls[c].high \cup blobViewer.calls[c].low :
              c \in {d \in 1..BlobMaxCalls : blobViewer.calls[d] # NoCall}}

NextBlob ==
    \/ blobFetchTileMeta
    \/ \E newPan \in scenario.pans : blobSetPanState(newPan)
    \/ blobTimerFire
    \/ \E c \in 1..BlobMaxCalls : \E q \in BlobRequests :
           \E ok \in BOOLEAN : blobResponse(c, q, ok)

SpecBlob == InitBlob /\ [][NextBlob]_vars

\* The user drags one tile to the right of the initial pan and stays there.
BlobNearPans == {<<1408, -128>>}

InitBlobNear == InitBlobOf(BlobNearPans)

SpecBlobNear == InitBlobNear /\ [][NextBlob]_vars

\* ------------------------------------------------ load-once variant
\* The variant of the component that loads the tiles around the centre tile
\* once, on mount, and pans over them. Its viewport is viewportSize square.

\* Number of tile requests that may fail in a behaviour.
StaticMaxFailures == 1

\* lines 58-62: the metadata substituted when the metadata request fails
FallbackMeta ==
    [minRow |-> 0, maxRow |-> 63, minCol |-> 0, maxCol |-> 126,
     tileWidth |-> 256, tileHeight |-> 256, extensions |-> <<"png">>,
     centerRow |-> 31, centerCol |-> 63]

\* The metadata a server answers with: the tile set the fallback describes, a
\* 4 x 4 set of 512 x 512 tiles centred on tile (1,1), and the same set centred
\* on its corner tile (0,0). Tile sizes are even, so the halves of lines
\* 136-137 and 143-144 are whole numbers.
StaticMetas ==
    {FallbackMeta,
     [minRow |-> 0, maxRow |-> 3, minCol |-> 0, maxCol |-> 3,
      tileWidth |-> 512, tileHeight |-> 512, extensions |-> <<"png">>,
      centerRow |-> 1, centerCol |-> 1],
     [minRow |-> 0, maxRow |-> 3, minCol |-> 0, maxCol |-> 3,
      tileWidth |-> 512, tileHeight |-> 512, extensions |-> <<"png">>,
      centerRow |-> 0, centerCol |-> 0]}

\* The pan offsets a drag reaches (newPan = dragStart - e.client).
StaticPans == {<<0, 0>>, <<300, -200>>}

NoFrame == [none |-> TRUE]

\* lines 76-89: the rows and columns loadInitialTiles visits
staticRange(meta) ==
    LET tilesNeededX == Ceil(viewportSize, meta.tileWidth)
        tilesNeededY == Ceil(viewportSize, meta.tileHeight)
        halfX == tilesNeededX \div 2
        halfY == tilesNeededY \div 2
    IN  [startRow |-> meta.centerRow - halfY, endRow |-> meta.centerRow + halfY,
         startCol |-> meta.centerCol - halfX, endCol |-> meta.centerCol + halfX]

\* lines 95-98: the tiles the two loops request, in request order
staticQueue(meta) ==
    LET g == staticRange(meta)
        rlo == Max(g.startRow, meta.minRow)
        rhi == Min(g.endRow, meta.maxRow)
        clo == Max(g.startCol, meta.minCol)
        chi == Min(g.endCol, meta.maxCol)
        nr == Max(0, rhi - rlo + 1)
        nc == Max(0, chi - clo + 1)
    IN  [i \in 1..(nr * nc) |-> <<rlo + ((i - 1) \div nc), clo + ((i - 1) % nc)>>]

SetMin(S) == CHOOSE x \in S : \A y \in S : x <= y
SetMax(S) == CHOOSE x \in S : \A y \in S : x >= y

\* lines 117-147: loadInitialTiles once its loops have ended
staticFinish(v, tiles) ==
    IF tiles = {} THEN [v EXCEPT !.loading = FALSE, !.finished = TRUE]
    ELSE
    LET worldMinX == SetMin({t[2] : t \in tiles}) * v.tileMeta.tileWidth
        worldMinY == SetMin({t[1] : t \in tiles}) * v.tileMeta.tileHeight
        worldMaxX == (SetMax({t[2] : t \in tiles}) + 1) * v.tileMeta.tileWidth
        worldMaxY == (SetMax({t[1] : t \in tiles}) + 1) * v.tileMeta.tileHeight
        worldCenterX == (worldMinX + worldMaxX) \div 2
        worldCenterY == (worldMinY + worldMaxY) \div 2
    IN  [v EXCEPT !.loading = FALSE, !.finished = TRUE, !.initialTiles = tiles,
                  !.initialExtent = <<worldMaxX - worldMinX, worldMaxY - worldMinY>>,
                  !.panState = <<worldCenterX - viewportSize \div 2,
                                 worldCenterY - viewportSize \div 2>>]

\* lines 70-150: the effect that starts loadInitialTiles when tileMeta is set
\* and no tile is loaded; the function runs up to its first request
staticLoadEffect(v) ==
    IF v.tileMeta = NoMeta \/ v.initialTiles # {} THEN v
    ELSE LET queue == staticQueue(v.tileMeta)
         IN  IF queue = <<>> THEN staticFinish(v, {})
             ELSE [v EXCEPT !.loading = TRUE, !.queue = queue, !.tiles = {}]

\* lines 23-35: the component when it has mounted
staticMounted ==
    [tileMeta |-> NoMeta, panState |-> <<0, 0>>, isDragging |-> FALSE,
     initialTiles |-> {}, initialExtent |-> <<0, 0>>,
     frame |-> NoFrame,     \* the updatePan a mouse move has queued
     loading |-> FALSE,     \* loadInitialTiles is suspended at a request
     queue |-> <<>>,        \* the tiles its loops have still to request
     tiles |-> {},          \* its local array `tiles`
     origin |-> "none",     \* history: "fetched" | "fallback"
     finished |-> FALSE,    \* history: the last task ended loadInitialTiles
     failures |-> 0]

InitStatic ==
    /\ scenario \in {[meta |-> m, pans |-> StaticPans, inOrder |-> TRUE,
                      limited |-> TRUE] : m \in StaticMetas}
    /\ metaStatus = "pending"
    /\ tileMeta = NoMeta
    /\ panX = 0
    /\ panY = 0
    /\ isDragging = FALSE
    /\ isInitialized = FALSE
    /\ tilesMapRef = {}
    /\ loadingTilesRef = {}
    /\ frames = <<>>
    /\ timer = NoTimer
    /\ staleTimers = {}
    /\ runs = [s \in 1..MaxRuns |-> NoRun]
    /\ failures = 0
    /\ cycles = 0
    /\ sincePan = 0
    /\ cyclesSincePan = 0
    /\ panChanges = 0
    /\ late = {}
    /\ last = NoEvent
    /\ blobViewer = NoViewer
    /\ staticViewer = staticMounted
    /\ imageViewer = NoViewer

\* lines 48-55: the metadata request succeeds
staticFetchMetaOk ==
    /\ staticViewer.origin = "none"
    /\ staticViewer' =
           staticLoadEffect([staticViewer EXCEPT !.tileMeta = scenario.meta,
                                                 !.panState = <<0, 0>>,
                                                 !.origin = "fetched"])
    /\ UNCHANGED <<viewerVars, blobViewer, imageViewer>>

\* lines 56-64: the metadata request fails
staticFetchMetaFail ==
    /\ staticViewer.origin = "none"
    /\ staticViewer' =
           staticLoadEffect([staticViewer EXCEPT !.tileMeta = FallbackMeta,
                                                 !.origin = "fallback"])
    /\ UNCHANGED <<viewerVars, blobViewer, imageViewer>>

\* lines 99-112: the awaited tile request settles; the loops go on to the next
\* request, or end
staticTileResponse(ok) ==
    /\ staticViewer.loading
    /\ ~ok => staticViewer.failures < StaticMaxFailures
    /\ LET t == Head(staticViewer.queue)
           tiles == IF ok THEN staticViewer.tiles \cup {t} ELSE staticViewer.tiles
           v == [staticViewer EXCEPT !.queue = Tail(@), !.tiles = tiles,
                                     !.failures = IF ok THEN @ ELSE @ + 1]
       IN  staticViewer' = IF v.queue = <<>> THEN staticFinish(v, tiles) ELSE v
    /\ UNCHANGED <<viewerVars, blobViewer, imageViewer>>

\* lines 216-228: the viewport and its handlers are rendered
staticRendered ==
    /\ staticViewer.tileMeta # NoMeta
    /\ staticViewer.initialTiles # {}
    /\ staticViewer.initialExtent[1] # 0 /\ staticViewer.initialExtent[2] # 0

\* lines 153-156
staticMouseDown ==
    /\ staticRendered
    /\ ~staticViewer.isDragging
    /\ staticViewer' = [staticViewer EXCEPT !.isDragging = TRUE, !.finished = FALSE]
    /\ UNCHANGED <<viewerVars, blobViewer, imageViewer>>

\* lines 158-166
staticMouseMove(newPan) ==
    /\ staticRendered
    /\ staticViewer.isDragging
    /\ staticViewer.frame = NoFrame
    /\ staticViewer' = [staticViewer EXCEPT !.frame = newPan, !.finished = FALSE]
    /\ UNCHANGED <<viewerVars, blobViewer, imageViewer>>

\* line 164: the animation frame runs updatePan
staticUpdatePan ==
    /\ staticViewer.frame # NoFrame
    /\ staticViewer' = [staticViewer EXCEPT !.panState = staticViewer.frame,
                                            !.frame = NoFrame, !.finished = FALSE]
    /\ UNCHANGED <<viewerVars, blobViewer, imageViewer>>

\* lines 168-170 and 199
staticMouseUp ==
    /\ staticViewer.isDragging
    /\ staticViewer' = [staticViewer EXCEPT !.isDragging = FALSE, !.finished = FALSE]
    /\ UNCHANGED <<viewerVars, blobViewer, imageViewer>>

NextStatic ==
    \/ staticFetchMetaOk
    \/ staticFetchMetaFail
    \/ \E ok \in BOOLEAN : staticTileResponse(ok)
    \/ staticMouseDown
    \/ \E newPan \in scenario.pans : staticMouseMove(newPan)
    \/ staticUpdatePan
    \/ staticMouseUp

SpecStatic == InitStatic /\ [][NextStatic]_vars

\* =============================================================== claims
TilesOf(seq) == {<<seq[i].row, seq[i].col>> : i \in 1..Len(seq)}
TileOfKey(k) == <<KeyRow(k), KeyCol(k)>>

\* The tiles a cycle run with pan (pX, pY) classifies Visible / Preview-band
VisibleAt(pX, pY) == TilesOf(highResTiles(tileMeta, pX, pY))
PreviewBandAt(pX, pY) == TilesOf(lowResTiles(tileMeta, pX, pY))

\* C1. Eviction safety: the cleanup step of a cycle run with pan P removes no
\* entry whose tile that cycle classifies Visible or Preview-band at P; every
\* entry it removes lies outside the viewport at P expanded by CLEANUP_MARGIN.
C1_EvictionSafety ==
    last.ev.ran =>
        \A k \in last.ev.removed :
            /\ TileOfKey(k) \notin VisibleAt(last.ev.panX, last.ev.panY)
            /\ TileOfKey(k) \notin PreviewBandAt(last.ev.panX, last.ev.panY)
            /\ ~isTileInZone(KeyRow(k), KeyCol(k), last.ev.panX, last.ev.panY,
                             tileMeta.tileWidth, tileMeta.tileHeight, CLEANUP_MARGIN)

\* A cleanup step that removes entries while entries of Visible and of
\* Preview-band tiles are resident.
C1_Witness ==
    /\ last.ev.ran
    /\ last.ev.removed # {}
    /\ \E k \in last.ev.before : TileOfKey(k) \in VisibleAt(last.ev.panX, last.ev.panY)
    /\ \E k \in last.ev.before : TileOfKey(k) \in PreviewBandAt(last.ev.panX, last.ev.panY)

\* C2. Debounce coalescing: once the viewer is initialized, the pan changes
\* that follow one another while the debounce timer is pending start exactly
\* one refresh cycle: no second cycle starts before the next pan change, a
\* cycle has started whenever no timer is pending, and the cycle starts no
\* earlier than DEBOUNCE_MS after the last of the changes.
C2_DebounceCoalescing ==
    /\ Rendered =>
           /\ cyclesSincePan <= 1
           /\ (timer = NoTimer) <=> (cyclesSincePan = 1)
    /\ (last.started = "timer" /\ last.burst >= 1) => last.elapsed >= DEBOUNCE_MS

\* A timer-started cycle that follows two or more pan changes.
C2_Witness == last.started = "timer" /\ last.burst >= 2

\* C3. Last write wins: the pan a pending timer will hand to updateTiles is the
\* current pan, and a cycle started by the timer classifies (and, when it ends
\* in the same task, evicts) against the pan current when the timer fires.
C3_LastWriteWins ==
    /\ timer # NoTimer => <<timer.panX, timer.panY>> = <<panX, panY>>
    /\ last.started = "timer" =>
           /\ <<last.startPanX, last.startPanY>> = <<panX, panY>>
           /\ last.ev.ran => <<last.ev.panX, last.ev.panY>> = <<panX, panY>>

\* A timer-started cycle, after several pan changes, away from the initial pan,
\* that has run its cleanup.
C3_Witness ==
    /\ last.started = "timer"
    /\ last.burst >= 2
    /\ last.ev.ran
    /\ last.ev.removed # {}

\* C4. Fetch deduplication: every key has at most one outstanding request, the
\* in-flight set holds exactly the keys with an outstanding request, and a
\* loadTile call that returned null created no request.
PendingOf(key) == {s \in 1..MaxRuns : runs[s] # NoRun /\ key \in runs[s].pending}

C4_FetchDedup ==
    /\ \A s \in 1..MaxRuns :
           runs[s] # NoRun =>
               \A key \in runs[s].pending :
                   PendingOf(key) = {s} /\ key \in loadingTilesRef
    /\ \A key \in loadingTilesRef : Cardinality(PendingOf(key)) = 1
    /\ last.skipped \cap last.issued = {}

\* loadTile was called for a key that another run has in flight.
C4_Witness ==
    \E key \in last.skipped : key \in loadingTilesRef /\ PendingOf(key) # {}

\* C5 (as amended). Tier supersession does not happen: when a Full entry for
\* (row, col) is installed while the Preview entry for (row, col) is resident,
\* the Preview entry stays resident beside it; an entry leaves the cache only
\* in a cleanup step.
LowOf(k) == KeyOf("low", KeyRow(k), KeyCol(k))
FullInstalledOverPreview(k) ==
    /\ KeyType(k) = "high"
    /\ k \notin tilesMapRef
    /\ k \in tilesMapRef'
    /\ LowOf(k) \in tilesMapRef

InitialRun(s) == runs[s] # NoRun /\ runs[s].init

C6_InitialCycleAlone ==
    \A s \in 1..MaxRuns :
        InitialRun(s) =>
            /\ timer = NoTimer
            /\ ~isInitialized
            /\ last.started # "timer"
            /\ \A t \in 1..MaxRuns : t # s => runs[t] = NoRun

\* C6 as claimed: at most one updateTiles run is in its Full-loading phase.
FullPhase == {s \in 1..MaxRuns : runs[s] # NoRun /\ runs[s].type = "high"}

C6_Original == Cardinality(FullPhase) <= 1

\* The initial cycle is awaiting a Full batch.
C6_Witness == \E s \in 1..MaxRuns : InitialRun(s) /\ runs[s].pending # {}

\* C7. Sequential batches: the outstanding and the just-settled requests of a
\* run all belong to one slice of at most BATCH_SIZE consecutive tiles of its
\* list, the slice number i, and the run moves on to the next slice only in
\* the task in which the last outstanding request of the slice settles.
BatchNo(j) == (j - 1) \div BATCH_SIZE
KeyAt(r, j) == KeyOf(r.type, r.tiles[j].row, r.tiles[j].col)

InCurrentBatch(r) ==
    /\ (r.i - 1) % BATCH_SIZE = 0
    /\ Cardinality(r.pending \cup r.loaded \cup r.failed) <= Len(r.tiles)
    /\ Cardinality(r.pending) <= BATCH_SIZE
    /\ \A key \in r.pending \cup r.loaded :
           \E j \in 1..Len(r.tiles) : KeyAt(r, j) = key /\ BatchNo(j) = BatchNo(r.i)

SameRun(r, q) == r # NoRun /\ q # NoRun /\ r.type = q.type /\ r.tiles = q.tiles

C7_SequentialBatches ==
    /\ [](\A s \in 1..MaxRuns : runs[s] # NoRun => InCurrentBatch(runs[s]))
    /\ [][ \A s \in 1..MaxRuns :
               (SameRun(runs[s], runs'[s]) /\ runs'[s].i > runs[s].i) =>
                   /\ Cardinality(runs[s].pending) = 1
                   /\ runs[s].pending \cap loadingTilesRef' = {} ]_vars

\* A run whose second slice is in flight, after a request of its first slice
\* failed.
C7_Witness ==
    \E s \in 1..MaxRuns :
        /\ runs[s] # NoRun
        /\ runs[s].i > BATCH_SIZE
        /\ runs[s].pending # {}
        /\ runs[s].failed # {}

\* C8 (as amended). In-flight ceiling per run: every loadInBatches run has at
\* most BATCH_SIZE requests outstanding, so the in-flight set holds at most
\* BATCH_SIZE keys per suspended run.
SuspendedRuns == {s \in 1..MaxRuns : runs[s] # NoRun}

C8_PerRunCeiling ==
    /\ \A s \in SuspendedRuns : Cardinality(runs[s].pending) <= BATCH_SIZE
    /\ Cardinality(loadingTilesRef) <= BATCH_SIZE * Cardinality(SuspendedRuns)

\* C8 as claimed: the in-flight set never holds more than BATCH_SIZE keys.
C8_Original == Cardinality(loadingTilesRef) <= BATCH_SIZE

\* A run with a full batch outstanding.
C8_Witness == \E s \in SuspendedRuns : Cardinality(runs[s].pending) = BATCH_SIZE

\* C9 (as amended). Fetch failure: the task in which the fetch for key K fails
\* takes K out of the in-flight set and installs no entry for K, and a refresh
\* cycle that starts while a Visible tile's Full key is neither resident nor in
\* flight issues a request for it, in the task that starts the cycle or in a
\* later batch of its Full run.
FullKeysAt(meta, pX, pY) ==
    {KeyOf("high", t[1], t[2]) : t \in TilesOf(highResTiles(meta, pX, pY))}

LaterBatch(r, K) ==
    /\ r # NoRun
    /\ r.type = "high"
    /\ \E j \in r.i..Len(r.tiles) : KeyAt(r, j) = K /\ BatchNo(j) > BatchNo(r.i)

C9_FailedThenRetried ==
    [][ /\ \A K \in last'.errored :
               /\ K \in loadingTilesRef
               /\ K \notin loadingTilesRef'
               /\ K \notin last'.installed
               /\ K \notin tilesMapRef => K \notin tilesMapRef'
        /\ last'.started # "no" =>
               \A K \in FullKeysAt(tileMeta', last'.startPanX, last'.startPanY) :
                   (K \notin tilesMapRef /\ K \notin loadingTilesRef) =>
                       \/ K \in last'.issued
                       \/ \E s \in 1..MaxRuns : LaterBatch(runs'[s], K) ]_vars

\* C9 as claimed: when a cycle ends, the keys whose Full fetch failed in it are
\* absent from the cache and from the in-flight set.
C9_Original ==
    last.ev.ran =>
        \A K \in last.cycleFailed : K \notin tilesMapRef /\ K \notin loadingTilesRef

\* A cycle starts and issues a request for a Full key whose fetch failed in an
\* earlier cycle.
C9_Witness ==
    /\ last.started = "timer"
    /\ \E s \in 1..MaxRuns :
           /\ runs[s] # NoRun
           /\ runs[s].failed \cap last.issued # {}
           /\ \A K \in runs[s].failed \cap last.issued : KeyType(K) = "high"

\* C10. Return to Idle: when every issued request settles, every updateTiles
\* call that awaits its Full batches runs its cleanup step and returns, also
\* when requests of a batch fail.
C10_ReturnToIdle ==
    \A s \in 1..MaxRuns :
        (runs[s].type = "high") ~> (runs[s].type # "high" /\ last.ev.ran)

\* A cycle in which a Full request failed has run its cleanup and returned.
C10_Witness == last.ev.ran /\ last.cycleFailed # {}

\* C11 (as amended). Zones: in a refresh cycle with pan P no tile of the scan
\* window is in two of the zones Visible, Preview-band, Evict, and the tiles in
\* none of them are exactly those that overlap the viewport expanded by
\* CLEANUP_MARGIN without being Visible or Preview-band (they overlap it
\* expanded by CLEANUP_MARGIN but not by LOWRES_MARGIN, or the tile set has no
\* previews): such a tile is neither fetched nor removed.
ScanTiles(meta, pX, pY) == TilesOf(ScanList(meta, pX, pY))

\* The zones of a cycle: the tiles of its two lists, and the tiles whose
\* entries its cleanup removes.
ZoneSets(meta, pX, pY) ==
    LET scan == ScanTiles(meta, pX, pY)
    IN  [Visible |-> TilesOf(highResTiles(meta, pX, pY)),
         Preview |-> TilesOf(lowResTiles(meta, pX, pY)),
         Evict |-> {TileOfKey(k) :
                       k \in tilesToRemove(meta, {KeyOf("high", t[1], t[2]) : t \in scan},
                                           pX, pY)}]

ZonesOf(sets, t) ==
    {z \in {"Visible", "Preview-band", "Evict"} :
        \/ z = "Visible" /\ t \in sets.Visible
        \/ z = "Preview-band" /\ t \in sets.Preview
        \/ z = "Evict" /\ t \in sets.Evict}

Retained(meta, t, pX, pY) ==
    /\ isTileInZone(t[1], t[2], pX, pY, meta.tileWidth, meta.tileHeight, CLEANUP_MARGIN)
    /\ ~isTileInZone(t[1], t[2], pX, pY, meta.tileWidth, meta.tileHeight, HIGHRES_MARGIN)
    /\ \/ ~isTileInZone(t[1], t[2], pX, pY, meta.tileWidth, meta.tileHeight, LOWRES_MARGIN)
       \/ ~meta.hasPreview

C11_ZonesDisjoint ==
    last.started = "timer" =>
        LET sets == ZoneSets(tileMeta, last.startPanX, last.startPanY)
        IN  \A t \in ScanTiles(tileMeta, last.startPanX, last.startPanY) :
                /\ Cardinality(ZonesOf(sets, t)) <= 1
                /\ (ZonesOf(sets, t) = {})
                       <=> Retained(tileMeta, t, last.startPanX, last.startPanY)

\* C11 as claimed: every tile of the scan window is in exactly one zone.
C11_Original ==
    last.started = "timer" =>
        LET sets == ZoneSets(tileMeta, last.startPanX, last.startPanY)
        IN  \A t \in ScanTiles(tileMeta, last.startPanX, last.startPanY) :
                Cardinality(ZonesOf(sets, t)) = 1

\* A cycle whose scan window has a tile of each zone and a tile of none.
C11_Witness ==
    /\ last.started = "timer"
    /\ LET sets == ZoneSets(tileMeta, last.startPanX, last.startPanY)
       IN  \A zones \in {{"Visible"}, {"Preview-band"}, {"Evict"}, {}} :
               \E t \in ScanTiles(tileMeta, last.startPanX, last.startPanY) :
                   ZonesOf(sets, t) = zones

\* C12. Priority ordering: the Full list and the Preview list of a cycle are
\* in order of the distance between tile centre and viewport centre, nearest
\* first, and requests are issued slice by slice of the list, so every tile of
\* an earlier batch is at least as near as every tile of a later one.
CentreDistance(meta, t, pX, pY) ==
    LET dx == (2 * t.col + 1) * meta.tileWidth - 2 * pX - viewportWidth
        dy == (2 * t.row + 1) * meta.tileHeight - 2 * pY - viewportHeight
    IN  dx * dx + dy * dy

NearestFirst(meta, tiles, pX, pY) ==
    \A i, j \in 1..Len(tiles) :
        i < j => CentreDistance(meta, tiles[i], pX, pY)
                     <= CentreDistance(meta, tiles[j], pX, pY)

BatchesNearestFirst(r) ==
    /\ \A h, j \in 1..Len(r.tiles) :
           BatchNo(h) < BatchNo(j) => r.tiles[h].distance <= r.tiles[j].distance
    /\ \A key \in r.pending :
           \E j \in 1..Len(r.tiles) : KeyAt(r, j) = key /\ BatchNo(j) = BatchNo(r.i)

C12_PriorityOrdering ==
    \A s \in 1..MaxRuns :
        runs[s] # NoRun =>
            /\ BatchesNearestFirst(runs[s])
            /\ runs[s].type = "high" =>
                   /\ NearestFirst(tileMeta, runs[s].tiles, runs[s].panX, runs[s].panY)
                   /\ NearestFirst(tileMeta, runs[s].lowResToLoad,
                                   runs[s].panX, runs[s].panY)

\* The second batch of a list is in flight, and the list holds tiles at
\* different distances; the Full run of a cycle waits with its Preview list
\* of more than one batch.
C12_Witness ==
    /\ \E s \in 1..MaxRuns :
           /\ runs[s] # NoRun
           /\ runs[s].i > BATCH_SIZE
           /\ runs[s].pending # {}
           /\ runs[s].tiles[1].distance < runs[s].tiles[Len(runs[s].tiles)].distance
    /\ \E s \in 1..MaxRuns :
           /\ runs[s] # NoRun
           /\ runs[s].type = "high"
           /\ runs[s].pending # {}
           /\ Len(runs[s].lowResToLoad) > BATCH_SIZE

\* C13. Visible set exactness: the tiles a cycle classifies Visible at pan P
\* are exactly the tiles of the grid whose rectangle and the viewport rectangle
\* at P have an overlap of positive width and height; for the 64 x 127 grid of
\* 128 x 128 tiles centred on (31, 63) these are, at the initial pan, the 45
\* tiles of rows 29..33 and columns 59..67.
GridTiles(meta) ==
    {<<row, col>> : row \in meta.minRow..meta.maxRow, col \in meta.minCol..meta.maxCol}

OverlapWidth(lo1, hi1, lo2, hi2) == Min(hi1, hi2) - Max(lo1, lo2)

OverlapsViewport(meta, t, pX, pY) ==
    /\ OverlapWidth(t[2] * meta.tileWidth, t[2] * meta.tileWidth + meta.tileWidth,
                    pX, pX + viewportWidth) > 0
    /\ OverlapWidth(t[1] * meta.tileHeight, t[1] * meta.tileHeight + meta.tileHeight,
                    pY, pY + viewportHeight) > 0

InitialPanOf(meta) ==
    <<meta.centerCol * meta.tileWidth + meta.tileWidth \div 2 - viewportCenterX,
      meta.centerRow * meta.tileHeight + meta.tileHeight \div 2 - viewportCenterY>>

C13_VisibleExact ==
    last.started = "timer" =>
        LET overlap == {t \in GridTiles(tileMeta) :
                           OverlapsViewport(tileMeta, t, last.startPanX, last.startPanY)}
        IN  /\ VisibleAt(last.startPanX, last.startPanY) = overlap
            /\ \A s \in 1..MaxRuns :
                   (runs[s].type = "high" /\ tilesMapRef = {}) =>
                       TilesOf(runs[s].tiles) = overlap
            /\ (tileMeta = GridMeta
                  /\ <<last.startPanX, last.startPanY>> = InitialPanOf(GridMeta)) =>
                   /\ overlap = {<<row, col>> : row \in 29..33, col \in 59..67}
                   /\ Cardinality(overlap) = 45

\* The cycle at the initial pan of the 64 x 127 grid has 45 visible tiles.
C13_Witness ==
    /\ last.started = "timer"
    /\ tileMeta = GridMeta
    /\ <<last.startPanX, last.startPanY>> = <<7616, 3776>>
    /\ InitialPanOf(GridMeta) = <<7616, 3776>>
    /\ \E s \in 1..MaxRuns : runs[s].type = "high" /\ Len(runs[s].tiles) = 45

\* C14. Incremental progress: the task in which the last request of a batch
\* settles installs the tiles the batch loaded and emits one forceUpdate for
\* the batch before the next batch is dispatched; in all, the task emits one
\* forceUpdate for every batch that ends in it, and when the run goes on to
\* its next batch the tiles of the batch are in the cache.
BatchCount(tiles) == IF Len(tiles) = 0 THEN 0 ELSE BatchNo(Len(tiles)) + 1

\* The batches of run r that ended in a task that left q in r's place
BatchesEnded(r, q) ==
    IF SameRun(r, q) THEN BatchNo(q.i) - BatchNo(r.i)
    ELSE BatchCount(r.tiles) - BatchNo(r.i)

\* The batches of the Preview run of r's cycle that ended in that task
PreviewBatchesEnded(r, q) ==
    IF r.type = "high" /\ ~SameRun(r, q) /\ tileMeta.hasPreview
    THEN IF q = NoRun THEN BatchCount(r.lowResToLoad) ELSE BatchNo(q.i)
    ELSE 0

BatchSettles(s) ==
    /\ runs[s] # NoRun
    /\ Cardinality(runs[s].pending) = 1
    /\ runs[s].pending \cap loadingTilesRef' = {}

C14_IncrementalProgress ==
    [][ \A s \in 1..MaxRuns :
            BatchSettles(s) =>
                /\ runs[s].loaded \subseteq last'.installed
                /\ (runs[s].pending \ last'.errored) \subseteq last'.installed
                /\ last'.errored \cap last'.installed = {}
                /\ last'.signals = BatchesEnded(runs[s], runs'[s])
                                       + PreviewBatchesEnded(runs[s], runs'[s])
                /\ last'.signals >= 1
                /\ SameRun(runs[s], runs'[s]) =>
                       /\ last'.installed \subseteq tilesMapRef'
                       /\ last'.issued \subseteq runs'[s].pending ]_vars

\* A first batch has settled with tiles to install, one forceUpdate has been
\* emitted and the second batch is in flight.
C14_Witness ==
    /\ last.signals = 1
    /\ Cardinality(last.installed) > 1
    /\ \E s \in 1..MaxRuns :
           /\ runs[s] # NoRun
           /\ runs[s].i > BATCH_SIZE
           /\ runs[s].pending # {}
           /\ last.issued = runs[s].pending

\* C15. Loaded before first paint: the task that sets isInitialized is the one
\* in which the initial cycle, run at the centred pan, ends; at that moment
\* every Visible tile of the initial pan is resident at Full tier or its fetch
\* failed in the initial cycle, none is in flight and no Full run is suspended.
C15_LoadedBeforeFirstPaint ==
    [][ (~isInitialized /\ isInitialized') =>
            /\ last'.ev.ran
            /\ <<last'.ev.panX, last'.ev.panY>> = InitialPanOf(tileMeta')
            /\ <<panX', panY'>> = InitialPanOf(tileMeta')
            /\ \A s \in 1..MaxRuns : runs'[s].type # "high"
            /\ \A K \in FullKeysAt(tileMeta', panX', panY') :
                   /\ K \in tilesMapRef' \/ K \in last'.cycleFailed
                   /\ K \notin loadingTilesRef' ]_vars

\* The viewer has just become initialized, with Visible tiles resident and a
\* Visible tile whose fetch failed.
C15_Witness ==
    /\ isInitialized
    /\ last.ev.ran
    /\ cycles = 0
    /\ <<last.ev.panX, last.ev.panY>> = InitialPanOf(tileMeta)
    /\ last.cycleFailed # {}
    /\ Cardinality(FullKeysAt(tileMeta, panX, panY) \cap tilesMapRef) >= 2

\* C16 (as amended). Late arrival: a tile that arrives when its key is outside
\* the viewport expanded by CLEANUP_MARGIN is installed anyway, and the cleanup
\* of the next cycle that starts after the install decides by that cycle's own
\* pan: it removes the key when the key is outside the cleanup zone of that
\* pan, and keeps it when the pan has come back within reach of the tile.
OutsideCleanupZone(k, pX, pY) ==
    ~isTileInZone(KeyRow(k), KeyCol(k), pX, pY,
                  tileMeta.tileWidth, tileMeta.tileHeight, CLEANUP_MARGIN)

HeldUrls == {t.url : t \in blobViewer.tilesMap}

C17_NoLeak == \A url \in blobViewer.handled : url \in HeldUrls \/ url \in blobViewer.revoked

\* C18. Single installer: from the moment a request for key K is issued until
\* its result is installed (or the request fails) no other call issues a
\* request for K: no key is awaited, in flight or loaded and not yet installed,
\* by two runs at the same time.
AwaitedBy(s) == IF runs[s] = NoRun THEN {} ELSE runs[s].pending \cup runs[s].loaded

C18_SingleInstaller ==
    \A s, t \in 1..MaxRuns : s # t => AwaitedBy(s) \cap AwaitedBy(t) = {}

\* C19. Full before Preview: within one refresh cycle no Preview-tier request
\* is issued until every Full-tier request of that cycle has settled and been
\* installed. In the object-URL variant: a call that has issued low-res
\* requests has stored the results of its high-res requests.
C19_FullBeforePreview ==
    \A c \in 1..BlobMaxCalls :
        LET call == blobViewer.calls[c]
        IN  (call # NoCall /\ call.low # {}) => call.phase = "low"

\* C19 in TileViewer.tsx: a task that issues Preview requests leaves no Full
\* run of its cycle suspended, and every Full request of the run it has ended
\* is installed or has failed.
PreviewIssued(event) == {k \in event.issued : KeyType(k) = "low"}

C19_FullFirst ==
    [][ PreviewIssued(last') # {} =>
            \A s \in 1..MaxRuns :
                runs'[s] # runs[s] =>
                    /\ runs'[s].type # "high"
                    /\ runs[s].type = "high" =>
                           \A j \in 1..Len(runs[s].tiles) :
                               KeyAt(runs[s], j) \in
                                   tilesMapRef' \cup runs[s].failed \cup last'.errored
      ]_vars

\* A task has ended a Full run with requests and issued Preview requests.
C19_FullFirstReached ==
    /\ PreviewIssued(last) # {}
    /\ \E k \in last.installed : KeyType(k) = "high"

\* C20. Eviction completeness: immediately after the eviction step of a
\* refresh cycle run with pan P the cache holds no entry, of either tier, whose
\* tile rectangle does not overlap the viewport at P expanded by CLEANUP_MARGIN:
\* every entry that was resident and outside that rectangle has been removed.
C20_EvictionComplete ==
    last.ev.ran =>
        /\ \A k \in tilesMapRef : ~OutsideCleanupZone(k, last.ev.panX, last.ev.panY)
        /\ \A k \in last.ev.before :
               OutsideCleanupZone(k, last.ev.panX, last.ev.panY) =>
                   k \in last.ev.removed /\ k \notin tilesMapRef

\* An eviction step has removed a Full entry and a Preview entry while it kept
\* other entries.
C20_Witness ==
    /\ last.ev.ran
    /\ \E k \in last.ev.removed : KeyType(k) = "high"
    /\ \E k \in last.ev.removed : KeyType(k) = "low"
    /\ tilesMapRef # {}

\* C20 in the object-URL variant, whose zones are radii: after the cleanup of
\* a call with pan P every entry is within CLEANUP_RADIUS of the viewport
\* centre at P.
C20_BlobEvictionComplete ==
    blobViewer.cleanup.ran =>
        \A t \in blobViewer.tilesMap :
            WithinRadius(calculateTileDistance(t.row, t.col,
                             blobViewer.cleanup.panX + viewportCenter,
                             blobViewer.cleanup.panY + viewportCenter,
                             blobViewer.tileMeta.tileWidth,
                             blobViewer.tileMeta.tileHeight),
                         CLEANUP_RADIUS)

\* A cleanup of the variant has revoked and removed an entry and kept another.
C20_BlobReached ==
    /\ blobViewer.cleanup.ran
    /\ blobViewer.revoked # {}
    /\ blobViewer.tilesMap # {}

\* C21. Signal after eviction: a refresh cycle whose eviction step removes
\* entries emits a renderer change signal after it: the task that runs the
\* cleanup calls forceUpdate after it, or the cycle's low-res run is suspended
\* and will call it, or the cycle is the initial one and setIsInitialized
\* follows.
C21_SignalAfterEviction ==
    (last.ev.ran /\ last.ev.removed # {}) =>
        last.ev.signalled > 0 \/ last.ev.awaiting \/ last.ev.init

\* C22. Metadata failure is fatal: once the metadata request has failed the
\* viewer stays not initialized behind the loading screen, with no metadata, no
\* request in flight, an empty cache, no suspended run, no queued pan and no
\* debounce timer, and the request is not retried.
C22_MetadataFailureFatal ==
    /\ [](metaStatus = "failed" =>
            /\ tileMeta = NoMeta
            /\ ~isInitialized
            /\ ~Rendered
            /\ tilesMapRef = {}
            /\ loadingTilesRef = {}
            /\ \A s \in 1..MaxRuns : runs[s] = NoRun
            /\ frames = <<>>
            /\ timer = NoTimer)
    /\ [][metaStatus = "failed" => UNCHANGED vars]_vars

\* The metadata request has failed.
C22_Witness == metaStatus = "failed"

PreviewKeys(keys) == {k \in keys : KeyType(k) = "low"}

\* C23. No preview without hasPreview: when the metadata's hasPreview is false
\* no Preview request is issued, none is in flight, no Preview entry is
\* resident and no low-res run exists, whatever the pan changes.
C23_NoPreviewWithoutHasPreview ==
    (tileMeta # NoMeta /\ ~tileMeta.hasPreview) =>
        /\ PreviewKeys(last.issued \cup last.skipped) = {}
        /\ PreviewKeys(loadingTilesRef) = {}
        /\ PreviewKeys(tilesMapRef) = {}
        /\ \A s \in 1..MaxRuns : runs[s].type # "low"

\* Without preview tiles, a timer-started cycle has loaded a Full tile and run
\* its cleanup at a pan where a tile of the grid is in the preview band.
C23_Witness ==
    /\ tileMeta # NoMeta /\ ~tileMeta.hasPreview
    /\ last.ev.ran /\ ~last.ev.init
    /\ last.installed # {}
    /\ \E t \in ScanTiles(tileMeta, last.ev.panX, last.ev.panY) :
           /\ ~isTileInZone(t[1], t[2], last.ev.panX, last.ev.panY,
                            tileMeta.tileWidth, tileMeta.tileHeight, HIGHRES_MARGIN)
           /\ isTileInZone(t[1], t[2], last.ev.panX, last.ev.panY,
                           tileMeta.tileWidth, tileMeta.tileHeight, LOWRES_MARGIN)

InGrid(meta, k) ==
    /\ meta.minRow <= KeyRow(k) /\ KeyRow(k) <= meta.maxRow
    /\ meta.minCol <= KeyCol(k) /\ KeyCol(k) <= meta.maxCol

\* The viewport at pan (pX, pY), grown by margin on each side, shares no pixel
\* with the image.
MissesImage(meta, pX, pY, margin) ==
    \/ (meta.maxCol + 1) * meta.tileWidth <= pX - margin
    \/ meta.minCol * meta.tileWidth >= pX + viewportWidth + margin
    \/ (meta.maxRow + 1) * meta.tileHeight <= pY - margin
    \/ meta.minRow * meta.tileHeight >= pY + viewportHeight + margin

KeysInGrid ==
    \A k \in loadingTilesRef \cup tilesMapRef \cup last.issued : InGrid(tileMeta, k)

NoRequestBeyond(margin) ==
    (last.started = "timer" /\ MissesImage(tileMeta, last.startPanX, last.startPanY, margin))
        => last.issued = {}

\* C24. Grid bounds: every key in the in-flight set or the cache, and every key
\* a task requested, has its row in minRow..maxRow and its column in
\* minCol..maxCol, for any pan; a cycle whose viewport grown by the preview
\* margin (by nothing when the server has no previews) misses the image issues
\* no request.
C24_GridBounds ==
    tileMeta # NoMeta =>
        /\ KeysInGrid
        /\ NoRequestBeyond(IF tileMeta.hasPreview THEN LOWRES_MARGIN ELSE HIGHRES_MARGIN)

\* The claim as stated: no request at all once the viewport is wholly outside
\* the image.
C24_GridBounds_Original ==
    tileMeta # NoMeta => KeysInGrid /\ NoRequestBeyond(0)

\* A cycle at a pan wholly outside the image has placed keys in the in-flight
\* set, from a scan window that reaches beyond the grid.
C24_Witness ==
    /\ tileMeta # NoMeta
    /\ last.started = "timer"
    /\ MissesImage(tileMeta, last.startPanX, last.startPanY, 0)
    /\ last.issued # {} /\ last.issued \subseteq loadingTilesRef
    /\ centerColOf(tileMeta, last.startPanX) - scanTilesX(tileMeta) < tileMeta.minCol

\* A cycle in empty space, beyond the preview margin, has issued no request
\* although its scan window holds tiles of the grid.
C24_EmptySpaceReached ==
    ~(/\ tileMeta # NoMeta /\ tileMeta.hasPreview
      /\ last.started = "timer"
      /\ MissesImage(tileMeta, last.startPanX, last.startPanY, LOWRES_MARGIN)
      /\ ScanTiles(tileMeta, last.startPanX, last.startPanY) # {}
      /\ last.issued = {})

\* C25. Initial centring: the initial pan puts the centre of tile
\* (centerRow, centerCol) at the viewport centre:
\* initialPan + viewportSize/2 = (centerCol*tileWidth + tileWidth/2,
\* centerRow*tileHeight + tileHeight/2). Stated for the load-once variant, in
\* half pixels, at the end of loadInitialTiles.
C25_InitialCentring ==
    (staticViewer # NoViewer /\ staticViewer.finished /\ staticViewer.initialTiles # {}) =>
        /\ 2 * staticViewer.panState[1] + viewportSize
               = (2 * staticViewer.tileMeta.centerCol + 1) * staticViewer.tileMeta.tileWidth
        /\ 2 * staticViewer.panState[2] + viewportSize
               = (2 * staticViewer.tileMeta.centerRow + 1) * staticViewer.tileMeta.tileHeight

\* The same for TileViewer.tsx, at the end of the task that fetched the
\* metadata: it holds there.
C25_MainCentring ==
    last.started = "init" =>
        /\ panX = last.startPanX /\ panY = last.startPanY
        /\ 2 * panX + viewportWidth = (2 * tileMeta.centerCol + 1) * tileMeta.tileWidth
        /\ 2 * panY + viewportHeight = (2 * tileMeta.centerRow + 1) * tileMeta.tileHeight

C25_MainReached == ~(last.started = "init")

\* The state of the component's hooks, without the history fields.
staticSession(v) ==
    [tileMeta |-> v.tileMeta, panState |-> v.panState, isDragging |-> v.isDragging,
     initialTiles |-> v.initialTiles, initialExtent |-> v.initialExtent]

FetchedSession(m) ==
    staticSession(staticLoadEffect([staticMounted EXCEPT !.tileMeta = m,
                                                         !.panState = <<0, 0>>]))

\* C26. Fallback marking: when the metadata request of the load-once variant
\* fails and the default metadata is substituted, the session state records
\* it: the state the component is in after the failure differs from the state
\* it is in after any metadata a server can answer with.
C26_FallbackMarked ==
    (staticViewer # NoViewer /\ staticViewer.origin = "fallback") =>
        \A m \in StaticMetas : staticSession(staticViewer) # FetchedSession(m)

\* The cache a cleanup run with pan (pX, pY) leaves of the cache `map`.
Evicted(map, pX, pY) == map \ tilesToRemove(tileMeta, map, pX, pY)

\* C27. Eviction is idempotent: the cleanup run a second time with the same
\* pan on the cache the first run left removes nothing, and a cleanup that
\* finds no resident entry outside the cleanup zone leaves the cache as it was.
C27_EvictionIdempotent ==
    last.ev.ran =>
        LET once == last.ev.before \ last.ev.removed
            twice == Evicted(once, last.ev.panX, last.ev.panY)
        IN  /\ tilesMapRef = once
            /\ twice = once
            /\ (\A k \in last.ev.before :
                    isTileInZone(KeyRow(k), KeyCol(k), last.ev.panX, last.ev.panY,
                                 tileMeta.tileWidth, tileMeta.tileHeight, CLEANUP_MARGIN))
                   => once = last.ev.before

\* A cleanup has removed several entries and kept others.
C27_Witness ==
    /\ last.ev.ran
    /\ Cardinality(last.ev.removed) >= 2
    /\ tilesMapRef # {}
    /\ tilesMapRef = last.ev.before \ last.ev.removed

\* A cleanup has run on a cache with no entry outside the cleanup zone.
C27_NothingToEvictReached ==
    ~(last.ev.ran /\ last.ev.before # {} /\ last.ev.removed = {})

\* Tile t lies in the range of the two scan loops of a cycle run with pan
\* (pX, pY).
InScanRange(t, pX, pY) ==
    /\ centerRowOf(tileMeta, pY) - scanTilesY(tileMeta) <= t[1]
    /\ t[1] <= centerRowOf(tileMeta, pY) + scanTilesY(tileMeta)
    /\ centerColOf(tileMeta, pX) - scanTilesX(tileMeta) <= t[2]
    /\ t[2] <= centerColOf(tileMeta, pX) + scanTilesX(tileMeta)

InZoneAt(t, pX, pY, margin) ==
    isTileInZone(t[1], t[2], pX, pY, tileMeta.tileWidth, tileMeta.tileHeight, margin)

\* C28. Scan window sufficiency: every tile of the grid whose rectangle
\* overlaps the viewport grown by CLEANUP_MARGIN lies in the scanned range
\* [centerRow - scanTilesY, centerRow + scanTilesY] x
\* [centerCol - scanTilesX, centerCol + scanTilesX] and is visited, so the
\* Visible tiles the cycle lists are all the grid's tiles that overlap the
\* viewport and its Preview-band tiles all those that overlap the preview band.
C28_ScanWindowSufficient ==
    (tileMeta # NoMeta /\ last.started = "timer") =>
        LET pX == last.startPanX
            pY == last.startPanY
            inCleanupZone == {t \in GridTiles(tileMeta) :
                                  InZoneAt(t, pX, pY, CLEANUP_MARGIN)}
        IN  /\ \A t \in inCleanupZone : InScanRange(t, pX, pY)
            /\ inCleanupZone \subseteq ScanTiles(tileMeta, pX, pY)
            /\ VisibleAt(pX, pY)
                   = {t \in GridTiles(tileMeta) : InZoneAt(t, pX, pY, HIGHRES_MARGIN)}
            /\ tileMeta.hasPreview =>
                   PreviewBandAt(pX, pY)
                       = {t \in GridTiles(tileMeta) :
                              /\ InZoneAt(t, pX, pY, LOWRES_MARGIN)
                              /\ ~InZoneAt(t, pX, pY, HIGHRES_MARGIN)}

\* A cycle's scan has left some of the grid's tiles out, none of them in the
\* cleanup zone, and the cleanup zone holds tiles beyond the preview band.
C28_Witness ==
    /\ tileMeta # NoMeta /\ last.started = "timer"
    /\ GridTiles(tileMeta) \ ScanTiles(tileMeta, last.startPanX, last.startPanY) # {}
    /\ \E t \in GridTiles(tileMeta) :
           /\ InZoneAt(t, last.startPanX, last.startPanY, CLEANUP_MARGIN)
           /\ ~InZoneAt(t, last.startPanX, last.startPanY, LOWRES_MARGIN)

\* The scan of the object-URL variant, whose zones are discs around the
\* viewport centre: every tile of the grid within CLEANUP_RADIUS is visited,
\* for 40 x 40 tiles of 128 x 128 and of 128 x 256 pixels.
C28_BlobScanSufficient ==
    \A th \in {128, 256} : \A pan \in {<<2048, 2048>>, <<-300, 100>>, <<4500, 2600>>} :
        LET meta == [minRow |-> 0, maxRow |-> 39, minCol |-> 0, maxCol |-> 39,
                     tileWidth |-> 128, tileHeight |-> th,
                     centerRow |-> 20, centerCol |-> 20, hasPreview |-> TRUE]
            scanned == {<<t.row, t.col>> : t \in blobScan(meta, pan[1], pan[2])}
        IN  /\ {t \in GridTiles(meta) :
                   WithinRadius(calculateTileDistance(t[1], t[2],
                                    pan[1] + viewportCenter, pan[2] + viewportCenter,
                                    meta.tileWidth, meta.tileHeight),
                                CLEANUP_RADIUS)} \subseteq scanned
            /\ GridTiles(meta) \ scanned # {}

\* The keys of the Full tier among keys.
FullKeys(keys) == {k \in keys : KeyType(k) = "high"}

\* C29. Preview is fire-and-forget: the task in which a cycle's high-res load
\* ends runs the cycle's cleanup and ends the cycle, without waiting for the
\* Preview requests it has started; the cleanup runs after the last Full batch
\* is installed (no high-res run of the cycle is left) and before any Preview
\* tile the cycle requested is installed (those requests are in flight).
C29_PreviewFireAndForget ==
    [][/\ \A s \in 1..MaxRuns :
              (runs[s].type = "high" /\ runs'[s].type # "high") => last'.ev.ran
       /\ last'.ev.ran =>
              /\ \A s \in 1..MaxRuns : runs'[s].type = "high" => runs'[s] = runs[s]
              /\ PreviewKeys(last'.installed) = {}
              /\ PreviewKeys(last'.issued) \subseteq loadingTilesRef' \ tilesMapRef'
              /\ last'.ev.init => isInitialized']_vars

\* The task that installed a cycle's last Full batch has requested Preview
\* tiles and run the cleanup; the low-res run is suspended at those requests.
C29_Witness ==
    /\ last.ev.ran /\ last.ev.awaiting
    /\ FullKeys(last.installed) # {}
    /\ PreviewKeys(last.issued) # {}
    /\ PreviewKeys(last.issued) \subseteq loadingTilesRef

\* The debounce timers that are pending.
PendingTimers == staleTimers \cup (IF timer = NoTimer THEN {} ELSE {timer})

\* C30. Single pending timer: at most one debounce timer is pending at any
\* time; a pan change while a timer is pending cancels that timer and arms a
\* fresh one, with the whole delay and the new pan.
C30_SinglePendingTimer ==
    /\ [](Cardinality(PendingTimers) <= 1)
    /\ [][(<<panX', panY'>> # <<panX, panY>> /\ timer # NoTimer) =>
              PendingTimers' = {[remaining |-> DEBOUNCE_MS, panX |-> panX', panY |-> panY']}
         ]_vars

\* A second pan change has come while the timer of the first was pending, part
\* of its delay gone; one timer is pending, with the whole delay and the new pan.
C30_Witness ==
    /\ panChanges >= 2
    /\ timer # NoTimer
    /\ timer.remaining = DEBOUNCE_MS
    /\ <<timer.panX, timer.panY>> = <<panX, panY>>
    /\ last = NoEvent
    /\ PendingTimers = {timer}

\* Every tile of the grid that overlaps the viewport at the current pan is
\* resident at Full tier.
VisibleResident ==
    /\ tileMeta # NoMeta
    /\ \A t \in VisibleAt(panX, panY) : KeyOf("high", t[1], t[2]) \in tilesMapRef

\* C31. Convergence: if the pan stops changing (the drag has ended and no pan
\* change is queued) and every fetch succeeds, then eventually every tile of
\* the grid that overlaps the viewport at the final pan is resident at Full
\* tier, and stays resident from then on.
C31_Convergence ==
    <>[](metaStatus = "ok" /\ ~isDragging /\ frames = <<>> /\ failures = 0)
        => <>[]VisibleResident

\* C32. A cleanup never removes an entry whose tile is Visible at the pan that
\* is current when the cleanup runs, whatever pan its cycle was started with.
C32_EvictionSparesCurrentView ==
    last.ev.ran =>
        \A k \in last.ev.removed : TileOfKey(k) \notin VisibleAt(panX, panY)

\* C33. The in-flight set and the cache are disjoint in every reachable state:
\* no key is in loadingTilesRef and in tilesMapRef at once.
C33_InflightCacheDisjoint == loadingTilesRef \cap tilesMapRef = {}

\* No debounce timer is pending, no refresh cycle is running and no request is
\* in flight.
Quiescent ==
    /\ tileMeta # NoMeta
    /\ timer = NoTimer
    /\ \A s \in 1..MaxRuns : runs[s] = NoRun
    /\ loadingTilesRef = {}

\* C34. Bounded residency at rest: whenever the viewer is quiescent, every
\* resident entry overlaps the viewport at the current pan grown by
\* CLEANUP_MARGIN.
C34_BoundedResidencyAtRest ==
    Quiescent =>
        \A k \in tilesMapRef :
            isTileInZone(KeyRow(k), KeyCol(k), panX, panY,
                         tileMeta.tileWidth, tileMeta.tileHeight, CLEANUP_MARGIN)

FullKeyOf(k) == KeyOf("high", KeyRow(k), KeyCol(k))

\* C35. A Preview request is never issued for a (row, col) whose Full entry is
\* resident when the cycle computes its fetch lists. A cycle computes its lists
\* from tilesMapRef in the task that starts it; when it has no Full tile to
\* wait for, it issues its Preview requests in that same task.
C35_NoPreviewRequestUnderFull ==
    [][last'.started # "no" =>
           \A k \in PreviewIssued(last') : FullKeyOf(k) \notin tilesMapRef]_vars

\* In the object-URL variant the list of Preview requests of a call names no
\* occupied slot (part_007, lines 126-129).
C35_BlobListSkipsOccupied ==
    [][\A c \in 1..BlobMaxCalls :
           (blobViewer.calls[c] = NoCall /\ blobViewer'.calls[c] # NoCall) =>
               \A q \in blobViewer'.calls[c].low :
                   ~blobHas(blobViewer.tilesMap, q.row, q.col)]_vars

\* A step in which the debounce effect sets a timer.
TimerArmed ==
    /\ timer' # NoTimer
    /\ timer' # timer
    /\ timer'.remaining = DEBOUNCE_MS

\* C36 as claimed: every timer-started cycle follows a pan change made since
\* the previous cycle started.
C36_Original == last.started = "timer" => last.burst >= 1

\* C36 (as amended). The debounce effect sets a timer in a render that changes
\* the pan or that makes isInitialized true. The timer of the latter starts one
\* refresh cycle without a pan change, the first timer-started cycle of the
\* session; every other cycle follows a pan change made since the previous
\* cycle started.
C36_TimerArmedByPanOrInit ==
    /\ [](last.started = "timer" /\ last.burst = 0 => cyclesSincePan = 1)
    /\ [][TimerArmed => \/ <<panX, panY>>' # <<panX, panY>>
                        \/ ~isInitialized /\ isInitialized']_vars

\* The timer set at the end of initialization has started a cycle.
C36_Witness == last.started = "timer" /\ last.burst = 0 /\ ~last.ev.init

\* The keys of the requests that have not settled.
PendingKeys == UNION {runs[s].pending : s \in {t \in 1..MaxRuns : runs[t] # NoRun}}

\* C37. In-flight set drains: a key is in loadingTilesRef exactly while a
\* request for it has not settled, whether the request ends in onload or in
\* onerror; when every issued request has settled loadingTilesRef is empty and
\* loadTile refuses no key for being in flight.
C37_InflightDrains ==
    /\ loadingTilesRef = PendingKeys
    /\ PendingKeys = {} =>
           \A k \in AllKeys(scenario.meta) :
               loadTile(k, loadingTilesRef, tilesMapRef) <=> k \notin tilesMapRef

\* A request has ended in onerror and no request is left.
C37_Witness ==
    /\ last.errored # {}
    /\ PendingKeys = {}
    /\ loadingTilesRef = {}

\* C38. No tier downgrade in the object-URL variant: a Preview entry found in
\* a slot that was occupied before the step is the entry that was there. A
\* resident Full entry is never replaced by a Preview entry, and a Preview
\* result arriving for an occupied slot is not installed.
C38_NoTierDowngrade ==
    [][\A t \in blobViewer.tilesMap : \A u \in blobViewer'.tilesMap :
           (u.row = t.row /\ u.col = t.col /\ u.type = "low") => u = t]_vars

\* A Preview result has been dropped while a Full entry is resident: its object
\* URL was neither installed nor revoked.
C38_Witness ==
    \E url \in blobViewer.handled :
        /\ url \notin blobViewer.revoked
        /\ url \notin {t.url : t \in blobViewer.tilesMap}
        /\ \E t \in blobViewer.tilesMap : t.type = "high"

\* ------------------------------------------------- ImageViewer.tsx
\* The component of ImageViewer.tsx: one image, zoomed and panned by keys,
\* wheel and drag. The zoom level is kept in tenths (zoomStep is 0.1).
imageMinZoom == 10
imageMaxZoom == 500
imageZoomStep == 1
imagePanStep == 50

\* Number of events of a session.
ImageMaxEvents == 5

\* window.innerWidth and window.innerHeight
ImageViewports == {<<200, 100>>, <<640, 480>>}

\* The zoom levels the user has reached with the + key when the session
\* starts: none, 1.5, and one step below the maximum.
ImageStartZooms == {10, 15, 499}

\* e.clientX, e.clientY of the mouse events
ImageClients == {<<0, 0>>, <<120, 90>>}

ImageKeys == {"+", "-", "w", "s", "a", "d"}

\* A coordinate is the exact number n + s * limit(z), where limit(z) is the pan
\* limit of its axis at zoom z: an integer number of pixels, or a limit that
\* clampPan returned, moved by an integer number of pixels.
imageNum(n, s, z) ==
    IF s = 0 \/ z <= imageMinZoom
    THEN [n |-> n, s |-> 0, z |-> imageMinZoom]
    ELSE [n |-> n, s |-> s, z |-> z]

imagePlus(a, k) == imageNum(a.n + k, a.s, a.z)

\* k - a
imageMinus(k, a) == imageNum(k - a.n, 0 - a.s, a.z)

\* lines 38-39: a <= size * (zoom - 1) / (2 * zoom), both sides multiplied by
\* 2 * zoom * a.z
imageAtMost(a, size, zoom) ==
    2 * a.n * a.z * zoom + a.s * size * (a.z - imageMinZoom) * zoom
        <= size * (zoom - imageMinZoom) * a.z

\* a >= - size * (zoom - 1) / (2 * zoom)
imageAtLeast(a, size, zoom) ==
    2 * a.n * a.z * zoom + a.s * size * (a.z - imageMinZoom) * zoom
        >= 0 - size * (zoom - imageMinZoom) * a.z

NoLimits == [none |-> TRUE]

\* calculatePanLimits, lines 27-43: 0 at zoom 1, else the two limits
calculatePanLimits(zoom) ==
    IF zoom <= imageMinZoom THEN NoLimits
    ELSE [x |-> imageNum(0, 1, zoom), y |-> imageNum(0, 1, zoom)]

\* Math.max(-limit, Math.min(limit, a)) on one axis
imageClampAxis(a, limit, size, zoom) ==
    LET upper == IF imageAtMost(a, size, zoom) THEN a ELSE limit
    IN  IF imageAtLeast(upper, size, zoom) THEN upper
        ELSE imageNum(0, 0 - limit.s, limit.z)

\* Mutant: clampPan returns the pan as it is.
clampPan_None(pan, zoom, viewport) == pan

\* clampPan, lines 45-54
clampPan(pan, zoom, viewport) ==
    LET limits == calculatePanLimits(zoom)
    IN  IF limits = NoLimits
        THEN [x |-> imageNum(0, 0, zoom), y |-> imageNum(0, 0, zoom)]
        ELSE [x |-> imageClampAxis(pan.x, limits.x, viewport[1], zoom),
              y |-> imageClampAxis(pan.y, limits.y, viewport[2], zoom)]

NoViewData == [none |-> TRUE]

\* lines 10-13: the component is mounted, after the user has pressed + until
\* the zoom level is `zoom`
imageMounted(viewport, zoom) ==
    [viewport |-> viewport,
     zoomLevel |-> zoom,
     panPosition |-> [x |-> imageNum(0, 0, zoom), y |-> imageNum(0, 0, zoom)],
     isDragging |-> FALSE,
     dragStart |-> [x |-> imageNum(0, 0, zoom), y |-> imageNum(0, 0, zoom)],
     sent |-> NoViewData,      \* the body of the last POST /api/view-data
     events |-> 0]

InitImage ==
    /\ scenario = [meta |-> StripMeta, pans |-> {}, inOrder |-> TRUE, limited |-> TRUE]
    /\ metaStatus = "pending"
    /\ tileMeta = NoMeta
    /\ panX = 0
    /\ panY = 0
    /\ isDragging = FALSE
    /\ isInitialized = FALSE
    /\ tilesMapRef = {}
    /\ loadingTilesRef = {}
    /\ frames = <<>>
    /\ timer = NoTimer
    /\ staleTimers = {}
    /\ runs = [s \in 1..MaxRuns |-> NoRun]
    /\ failures = 0
    /\ cycles = 0
    /\ sincePan = 0
    /\ cyclesSincePan = 0
    /\ panChanges = 0
    /\ late = {}
    /\ last = NoEvent
    /\ blobViewer = NoViewer
    /\ staticViewer = NoViewer
    /\ imageViewer \in {imageMounted(viewport, zoom) :
                           viewport \in ImageViewports, zoom \in ImageStartZooms}

imageEvent(v) == [v EXCEPT !.events = @ + 1]

\* handleKeyDown, lines 56-121
imageKeyDown(key) ==
    /\ imageViewer.events < ImageMaxEvents
    /\ LET v == imageViewer
           zoomLevel == v.zoomLevel
           panPosition == v.panPosition
           newZoom == CASE key = "+" -> Min(zoomLevel + imageZoomStep, imageMaxZoom)
                        [] key = "-" -> Max(zoomLevel - imageZoomStep, imageMinZoom)
                        [] OTHER -> zoomLevel
           moved == CASE key = "w" -> [panPosition EXCEPT !.y = imagePlus(@, imagePanStep)]
                      [] key = "s" -> [panPosition EXCEPT !.y = imagePlus(@, 0 - imagePanStep)]
                      [] key = "a" -> [panPosition EXCEPT !.x = imagePlus(@, imagePanStep)]
                      [] key = "d" -> [panPosition EXCEPT !.x = imagePlus(@, 0 - imagePanStep)]
                      [] OTHER -> panPosition
           newPan == clampPan(moved, newZoom, v.viewport)
       IN  imageViewer' = imageEvent([v EXCEPT !.zoomLevel = newZoom,
                                               !.panPosition = newPan,
                                               !.sent = [zoom |-> newZoom, pan |-> newPan]])
    /\ UNCHANGED <<viewerVars, blobViewer, staticViewer>>

\* handleWheel, lines 123-134
imageWheel(up) ==
    /\ imageViewer.events < ImageMaxEvents
    /\ LET v == imageViewer
           newZoom == IF up THEN Min(v.zoomLevel + imageZoomStep, imageMaxZoom)
                      ELSE Max(v.zoomLevel - imageZoomStep, imageMinZoom)
           newPan == clampPan(v.panPosition, newZoom, v.viewport)
       IN  imageViewer' = imageEvent([v EXCEPT !.zoomLevel = newZoom,
                                               !.panPosition = newPan,
                                               !.sent = [zoom |-> newZoom, pan |-> newPan]])
    /\ UNCHANGED <<viewerVars, blobViewer, staticViewer>>

\* handleMouseDown, lines 136-141
imageMouseDown(client) ==
    /\ imageViewer.events < ImageMaxEvents
    /\ imageViewer.zoomLevel > imageMinZoom
    /\ imageViewer' =
           imageEvent([imageViewer EXCEPT
               !.isDragging = TRUE,
               !.dragStart = [x |-> imageMinus(client[1], imageViewer.panPosition.x),
                              y |-> imageMinus(client[2], imageViewer.panPosition.y)]])
    /\ UNCHANGED <<viewerVars, blobViewer, staticViewer>>

\* handleMouseMove, lines 143-151
imageMouseMove(client) ==
    /\ imageViewer.events < ImageMaxEvents
    /\ imageViewer.isDragging
    /\ imageViewer.zoomLevel > imageMinZoom
    /\ imageViewer' =
           imageEvent([imageViewer EXCEPT
               !.panPosition =
                   clampPan([x |-> imageMinus(client[1], imageViewer.dragStart.x),
                             y |-> imageMinus(client[2], imageViewer.dragStart.y)],
                            imageViewer.zoomLevel, imageViewer.viewport)])
    /\ UNCHANGED <<viewerVars, blobViewer, staticViewer>>

\* handleMouseUp, lines 153-158, also the handler of mouseleave
imageMouseUp ==
    /\ imageViewer.events < ImageMaxEvents
    /\ imageViewer.isDragging
    /\ imageViewer' =
           imageEvent([imageViewer EXCEPT
               !.isDragging = FALSE,
               !.sent = [zoom |-> imageViewer.zoomLevel,
                         pan |-> imageViewer.panPosition]])
    /\ UNCHANGED <<viewerVars, blobViewer, staticViewer>>

NextImage ==
    \/ \E key \in ImageKeys : imageKeyDown(key)
    \/ \E up \in BOOLEAN : imageWheel(up)
    \/ \E client \in ImageClients : imageMouseDown(client)
    \/ \E client \in ImageClients : imageMouseMove(client)
    \/ imageMouseUp

SpecImage == InitImage /\ [][NextImage]_vars

\* |a| <= the pan limit of the axis at the current zoom level
WithinLimit(a, size) ==
    /\ imageAtMost(a, size, imageViewer.zoomLevel)
    /\ imageAtLeast(a, size, imageViewer.zoomLevel)

\* C39. ImageViewer pan clamp: after any sequence of key, wheel and drag events
\* the zoom level is in [1, 50], |x| <= maxPanX(zoom) and |y| <= maxPanY(zoom)
\* for the current zoom level, and the pan is (0, 0) whenever the zoom level is 1.
C39_PanClamp ==
    imageViewer # NoViewer =>
        /\ imageViewer.zoomLevel \in imageMinZoom..imageMaxZoom
        /\ WithinLimit(imageViewer.panPosition.x, imageViewer.viewport[1])
        /\ WithinLimit(imageViewer.panPosition.y, imageViewer.viewport[2])
        /\ imageViewer.zoomLevel = imageMinZoom =>
               /\ imageViewer.panPosition.x = imageNum(0, 0, imageMinZoom)
               /\ imageViewer.panPosition.y = imageNum(0, 0, imageMinZoom)

\* The user has zoomed out from 1.5 and clampPan has set the horizontal pan to
\* the limit of the zoom level reached.
C39_Witness ==
    /\ imageViewer # NoViewer
    /\ imageViewer.zoomLevel \notin ImageStartZooms
    /\ imageViewer.panPosition.x.s # 0
    /\ imageViewer.panPosition.x.n = 0
    /\ imageViewer.panPosition.x.z = imageViewer.zoomLevel
    /\ imageViewer.sent # NoViewData
    /\ imageViewer.sent.zoom < 15

====
